---- MODULE Spec2Model ----
(***************************************************************************)
(* Model of the gdrive path resolver, transfer engine, overwrite guard and *)
(* the `push` command.  Every await on the Remote Object Gateway is a      *)
(* point where control leaves the program: an action of the program runs   *)
(* the code between two awaits, and GatewayReturn is the Gateway answering *)
(* the call that is in flight.                                             *)
(***************************************************************************)
EXTENDS Integers, Sequences, FiniteSets, TLC

(***************************************************************************)
(* Bounds of the model.                                                    *)
(***************************************************************************)
\* longest path string (in characters) handed to the resolvers
MaxPathChars == 4
\* most objects in the remote store before the program starts
MaxInitObjs == 2
\* most entries (folders and files) of a local tree below its root
MaxEntries == 3
\* deepest entry of a local tree, in segments below its root
MaxDepth == 2
\* most segments of the remote path handed to push
MaxPushSegs == 3
\* most objects in the remote store before push starts
MaxPushObjs == 1
\* most entries of a local directory handed to push
MaxGuardEntries == 2
\* deepest entry of a local directory handed to push
MaxGuardDepth == 1
\* longest wildcard segment (in characters) handed to wildcard_to_regex
MaxGlobLen == 3
\* longest name (in characters) a compiled pattern is matched against
MaxNameLen == 3
\* longest path string (in characters) handed to resolve_wildcard_path
MaxWildChars == 3
\* most objects in the remote store when resolve_wildcard_path starts
MaxWildObjs == 2

MaxFileSize == 2

MaxStatEntries == 3

MaxStatDepth == 2

MaxArgs == 3

MaxNormChars == 4

MaxNormObjs == 1

\* push of a directory: the segments of the remote path
MaxTreeSegs == 2

\* push of a directory: the entries of the local directory
MaxTreeEntries == 1

(***************************************************************************)
(* Option values: None is the empty tuple, Some(x) the one-element tuple.  *)
(***************************************************************************)
None == << >>
Some(x) == << x >>

(***************************************************************************)
(* Characters, names and path strings.  A string is a sequence of          *)
(* characters; a name is a non-empty string without a slash.               *)
(***************************************************************************)
Slash == "/"
NameChars == {"x", "y"}
PathChars == NameChars \cup {Slash}
Names == {<<c>> : c \in NameChars}

StringsUpTo(alphabet, n) == UNION {[1..k -> alphabet] : k \in 0..n}

\* str::trim_matches('/')
RECURSIVE TrimStart(_)
TrimStart(s) ==
    IF s # << >> /\ Head(s) = Slash THEN TrimStart(Tail(s)) ELSE s

RECURSIVE TrimEnd(_)
TrimEnd(s) ==
    IF s # << >> /\ s[Len(s)] = Slash THEN TrimEnd(SubSeq(s, 1, Len(s) - 1)) ELSE s

TrimMatches(s) == TrimEnd(TrimStart(s))

\* str::split('/'): the pieces between slashes, empty pieces included
RECURSIVE SplitFrom(_, _, _)
SplitFrom(s, cur, acc) ==
    IF s = << >> THEN Append(acc, cur)
    ELSE IF Head(s) = Slash THEN SplitFrom(Tail(s), << >>, Append(acc, cur))
    ELSE SplitFrom(Tail(s), Append(cur, Head(s)), acc)

Split(s) == SplitFrom(s, << >>, << >>)

\* .filter(|s| !s.is_empty())
RECURSIVE FilterNonEmpty(_)
FilterNonEmpty(ps) ==
    IF ps = << >> THEN << >>
    ELSE IF Head(ps) = << >> THEN FilterNonEmpty(Tail(ps))
    ELSE <<Head(ps)>> \o FilterNonEmpty(Tail(ps))

\* a split that keeps the empty segments and trims nothing
PathParts_SplitOnly(p) == Split(p)

\* path.trim_matches('/').split('/').filter(|s| !s.is_empty()).collect()
PathParts(p) == FilterNonEmpty(Split(TrimMatches(p)))

(***************************************************************************)
(* The remote store.  Object identifiers are numbers: RootId is the alias  *)
(* "root", every other object is store[id].                                *)
(***************************************************************************)
RootId == 0

FolderKind == "folder"
FileKind == "file"

RemoteObjects(n, kinds) ==
    [name : Names, parent : 0..(n - 1), kind : kinds, trashed : BOOLEAN]

\* the stores the program can meet: every object's parent is the root or an
\* older object
InitStores(n, kinds) ==
    UNION {{s \in [1..k -> RemoteObjects(n, kinds)] : \A i \in 1..k : s[i].parent < i} : k \in 0..n}

(***************************************************************************)
(* The local tree (FileTree).  A node is named by its path relative to the *)
(* root directory, a sequence of names; the root folder is the empty path. *)
(***************************************************************************)
Front(p) == SubSeq(p, 1, Len(p) - 1)
Last(p) == p[Len(p)]

LocalPaths(d) == UNION {[1..k -> Names] : k \in 1..d}

\* the trees of at most n entries and depth at most d: every entry lies in a
\* folder of the tree
Trees(n, d) ==
    UNION {{[folders |-> F \cup {<< >>}, files |-> P \ F] :
                F \in {G \in SUBSET P : \A q \in P : Len(q) > 1 => Front(q) \in G}} :
            P \in {Q \in SUBSET LocalPaths(d) : Cardinality(Q) <= n}}

Orderings(S) ==
    {o \in [1..Cardinality(S) -> S] : \A i, j \in 1..Cardinality(S) : i # j => o[i] # o[j]}

\* FileTree::folders(): every folder node, each after its parent, the root first
FolderOrders(t) ==
    {o \in Orderings(t.folders) :
        \A i \in 1..Len(o) : o[i] # << >> => \E j \in 1..(i - 1) : o[j] = Front(o[i])}

\* Folder::files() of the root node: the file entries the root folder owns
RootFiles(t) == {f \in t.files : Len(f) = 1}

\* Folder::relative_path(), File::relative_path(): the path from the tree root
RelativePath(node) == node

\* folder_path.file_name().and_then(|s| s.to_str()).unwrap_or("")
FileNameOf(p) == IF p = << >> THEN << >> ELSE Last(p)

\* file_path.parent().unwrap_or_else(|| Path::new(""))
ParentPathOf(p) == IF p = << >> THEN << >> ELSE Front(p)

(***************************************************************************)
(* State.                                                                  *)
(***************************************************************************)
VARIABLES
    store,          \* the remote store: store[id] for every id in 1..Len(store)
    calls,          \* the Gateway calls issued so far, in order, with their answers
    cmd,            \* the operation under way
    pc,             \* the await the program is suspended at
    path,           \* the path string handed to the resolver
    parts,          \* let parts: Vec<&str>
    idx,            \* position of the segment loop in parts
    current_id,     \* let mut current_id
    current_file,   \* let mut current_file (the identifier of the File, if any)
    result,         \* the value the resolver returned
    round,          \* which of two calls in sequence is running
    first_result,   \* what the first of the two calls returned
    first_calls,    \* how many Gateway calls the first of the two calls issued
    tree,           \* the FileTree built from config.file_path
    folder_order,   \* tree.folders()
    root_files,     \* tree.root.files()
    parents,        \* config.parents: empty for None or Some(vec![])
    fi,             \* position of the folder loop in folder_order
    ui,             \* position of the file loop in root_files
    folder_ids,     \* let mut folder_ids: HashMap<PathBuf, String>
    remote_path,    \* Push: the remote destination path
    local_is_dir,   \* whether the local path is a directory
    local_name,     \* the file name of the local path
    recursive,      \* Push: the recursive flag
    overwrite,      \* Push: the overwrite flag
    desired_name,   \* Push: the file name taken from the remote path, if any
    upload_name,    \* the file name of config.file_path
    stdout,         \* what the overwrite guard has printed
    input,          \* the line read at the confirmation prompt, if any
    wildcard_part,  \* the final segment of a wildcard path
    wildcard_regex, \* let wildcard_regex = wildcard_to_regex(wildcard_part)
    candidate,      \* a name the compiled pattern is matched against
    is_match,       \* regex.is_match(name), once computed
    file_kind,      \* upload_file: what is created, a folder or a file
    file_size,      \* file_info.size
    chunk_size_bytes, \* delegate_config.chunk_size.in_bytes()
    mode,           \* the transfer chosen: upload or upload_resumable
    offset,         \* chunked transfer: the bytes the Gateway has acknowledged
    attempts,       \* the retries the delegate has granted so far
    delay,          \* the sleep before the latest retry, in seconds
    reply,          \* the Gateway's latest answer to the transfer
    sizes,          \* the byte size of each file of the local tree
    print_only_id,  \* config.print_only_id
    tree_info,      \* let tree_info = tree.info()
    reports,        \* the statistics lines upload_directory has printed
    args,           \* the command line after the program name
    cli,            \* Cli::try_parse_from(args), once parsed
    other_path,     \* a second spelling of the path, for a second call
    first_log,      \* the Gateway calls of the call with the first spelling
    initial_store   \* the remote state both calls start from

resolverVars == <<path, parts, idx, current_id, current_file, result>>

repeatVars == <<round, first_result, first_calls>>

uploadVars == <<tree, folder_order, root_files, parents, fi, ui, folder_ids>>

pushVars ==
    <<remote_path, local_is_dir, local_name, recursive, overwrite, desired_name,
      upload_name, stdout, input>>

wildVars == <<wildcard_part, wildcard_regex, candidate, is_match>>

transferVars ==
    <<file_kind, file_size, chunk_size_bytes, mode, offset, attempts, delay, reply>>

\* the state of the operations added after the resolvers and the guard
statVars == <<sizes, print_only_id, tree_info, reports>>

cliVars == <<args, cli>>

normVars == <<other_path, first_log, initial_store>>

extVars == <<transferVars, statVars, cliVars, normVars>>

vars ==
    <<store, calls, cmd, pc, resolverVars, repeatVars, uploadVars, pushVars, wildVars,
      extVars>>

\* no upload_file call is in progress
NoTransfer ==
    /\ file_kind = "none"
    /\ file_size = 0
    /\ chunk_size_bytes = 0
    /\ mode = "none"
    /\ offset = 0
    /\ attempts = 0
    /\ delay = 0
    /\ reply = "none"

\* upload_directory has built no tree and printed nothing
NoStats ==
    /\ print_only_id = FALSE
    /\ tree_info = None
    /\ reports = << >>

\* the sizes play no part: every file of the local tree is empty
EmptyFiles == sizes = [f \in tree.files |-> 0]

\* no command line is being parsed
NoCli ==
    /\ args = << >>
    /\ cli = None

\* no second spelling of the path is tried
NoOtherPath ==
    /\ other_path = << >>
    /\ first_log = << >>
    /\ initial_store = << >>

Idle == NoTransfer /\ NoStats /\ NoCli /\ NoOtherPath

(***************************************************************************)
(* Results.                                                                *)
(***************************************************************************)
NoResult == [tag |-> "none", file |-> None, seg |-> << >>]
Ok(f) == [tag |-> "Ok", file |-> f, seg |-> << >>]
Err(t) == [tag |-> t, file |-> None, seg |-> << >>]
ErrSeg(t, s) == [tag |-> t, file |-> None, seg |-> s]

(***************************************************************************)
(* The Remote Object Gateway.                                              *)
(***************************************************************************)
KindOf(st, id) == IF id = RootId THEN FolderKind ELSE st[id].kind

\* queries that ask for the trashed children
QueryTrashed_Only == TRUE

\* "... and trashed = false": the value every query of the resolvers and of
\* the guard asks the trashed flag to have
QueryTrashed == FALSE

\* the non-trashed children of pid, in the Gateway's listing order; nameFilter
\* is None (every name) or Some(name)
RECURSIVE ListedFrom(_, _, _, _)
ListedFrom(st, pid, nameFilter, i) ==
    IF i > Len(st) THEN << >>
    ELSE IF /\ st[i].parent = pid
            /\ st[i].trashed = QueryTrashed
            /\ (nameFilter = None \/ nameFilter = Some(st[i].name))
         THEN <<i>> \o ListedFrom(st, pid, nameFilter, i + 1)
         ELSE ListedFrom(st, pid, nameFilter, i + 1)

Take(s, n) == SubSeq(s, 1, IF Len(s) < n THEN Len(s) ELSE n)

\* find(parentId, nameFilter, trashed=false, limit)
Find(st, pid, nameFilter, limit) == Take(ListedFrom(st, pid, nameFilter, 1), limit)

Call(op, pid, name, kind, limit) ==
    [op |-> op, parent |-> pid, name |-> name, kind |-> kind, limit |-> limit,
     id |-> None, status |-> "pending", res |-> << >>]

GetCall(id) == Call("get", id, None, FolderKind, 1)
FindCall(pid, name, limit) == Call("find", pid, name, FolderKind, limit)

Pending == calls # << >> /\ calls[Len(calls)].status = "pending"
LastCall == calls[Len(calls)]

Returned == calls # << >> /\ ~Pending

\* a call started a second time while the first is in flight
Issue_Twice(c) == calls' = Append(Append(calls, c), c)

\* the call is started and awaited
Issue(c) == calls' = Append(calls, c)

IsWrite(c) == c.op \in {"mkdir", "create"}

Outcomes(c) == IF IsWrite(c) THEN {"ok", "err", "noid"} ELSE {"ok", "err"}

\* what the store holds after the call
StoreAfter(st, c, outcome) ==
    IF IsWrite(c) /\ outcome # "err"
    THEN LET o == [name |-> c.name[1], parent |-> c.parent, kind |-> c.kind, trashed |-> FALSE]
         IN  IF c.id = None THEN Append(st, o) ELSE [st EXCEPT ![c.id[1]] = o]
    ELSE st

\* what the call returns: the identifiers of the objects in its answer
Answer(st, c, outcome) ==
    IF outcome # "ok" THEN << >>
    ELSE IF c.op = "get" THEN <<c.parent>>
    ELSE IF c.op = "find" THEN Find(st, c.parent, c.name, c.limit)
    ELSE IF c.id # None THEN c.id
    ELSE <<Len(st) + 1>>

GatewayReturn ==
    /\ Pending
    /\ \E outcome \in Outcomes(LastCall) :
        /\ calls' = [calls EXCEPT ![Len(calls)] =
                        [@ EXCEPT !.status = outcome, !.res = Answer(store, LastCall, outcome)]]
        /\ store' = StoreAfter(store, LastCall, outcome)
    /\ UNCHANGED <<cmd, pc, resolverVars, repeatVars, extVars, wildVars, uploadVars, pushVars>>

(***************************************************************************)
(* resolve_path                                                            *)
(***************************************************************************)
\* a resolver that reports the last segment of the path instead of the one
\* that was not found
RpNotFound_LastSegment(ps, i) == ErrSeg("NotFound", ps[Len(ps)])

\* Err(PathResolutionError::NotFound(part.to_string()))
RpNotFound(ps, i) == ErrSeg("NotFound", ps[i])

\* what resolve_path does with a path that has no segment
RpEmptyPath == Err("InvalidPath")

RP_Start ==
    /\ pc = "rp_start"
    /\ parts' = PathParts(path)
    /\ IF parts' = << >>
       THEN /\ result' = RpEmptyPath
            /\ pc' = "rp_done"
            /\ UNCHANGED <<calls, current_id>>
       ELSE /\ current_id' = RootId
            /\ Issue(GetCall(RootId))
            /\ pc' = "rp_get"
            /\ UNCHANGED result
    /\ UNCHANGED <<store, cmd, path, idx, current_file, repeatVars, extVars, wildVars, uploadVars, pushVars>>

RP_AfterGet ==
    /\ pc = "rp_get"
    /\ Returned
    /\ IF LastCall.status # "ok"
       THEN /\ result' = Err("ApiError")
            /\ pc' = "rp_done"
            /\ UNCHANGED <<calls, idx, current_file>>
       ELSE /\ current_file' = Some(LastCall.res[1])
            /\ idx' = 1
            /\ Issue(FindCall(current_id, Some(parts[1]), 1))
            /\ pc' = "rp_find"
            /\ UNCHANGED result
    /\ UNCHANGED <<store, cmd, path, parts, current_id, repeatVars, extVars, wildVars, uploadVars, pushVars>>

RP_AfterFind ==
    /\ pc = "rp_find"
    /\ Returned
    /\ IF LastCall.status # "ok"
       THEN /\ result' = Err("ApiError")
            /\ pc' = "rp_done"
            /\ UNCHANGED <<calls, idx, current_id, current_file>>
       ELSE IF LastCall.res # << >>
       THEN /\ current_id' = LastCall.res[1]
            /\ current_file' = Some(LastCall.res[1])
            /\ IF idx = Len(parts)
               THEN /\ result' = Ok(current_file')
                    /\ pc' = "rp_done"
                    /\ UNCHANGED <<calls, idx>>
               ELSE /\ idx' = idx + 1
                    /\ Issue(FindCall(current_id', Some(parts[idx + 1]), 1))
                    /\ UNCHANGED <<pc, result>>
       ELSE /\ result' = RpNotFound(parts, idx)
            /\ pc' = "rp_done"
            /\ UNCHANGED <<calls, idx, current_id, current_file>>
    /\ UNCHANGED <<store, cmd, path, parts, repeatVars, extVars, wildVars, uploadVars, pushVars>>

(***************************************************************************)
(* Specification of resolve_path: any path string against any store.       *)
(***************************************************************************)
InitResolve ==
    /\ store \in InitStores(MaxInitObjs, {FolderKind})
    /\ path \in StringsUpTo(PathChars, MaxPathChars)
    /\ calls = << >>
    /\ cmd = "resolve"
    /\ pc = "rp_start"
    /\ parts = << >>
    /\ idx = 0
    /\ current_id = RootId
    /\ current_file = None
    /\ result = NoResult
    /\ round = 1
    /\ first_result = NoResult
    /\ first_calls = 0
    /\ Idle
    /\ wildcard_part = << >>
    /\ wildcard_regex = << >>
    /\ candidate = << >>
    /\ is_match = None
    /\ tree = [folders |-> {<< >>}, files |-> {}]
    /\ folder_order = << >>
    /\ root_files = << >>
    /\ parents = << >>
    /\ fi = 0
    /\ ui = 0
    /\ folder_ids = << >>
    /\ remote_path = << >>
    /\ local_is_dir = FALSE
    /\ local_name = << >>
    /\ recursive = FALSE
    /\ overwrite = FALSE
    /\ desired_name = None
    /\ upload_name = << >>
    /\ stdout = << >>
    /\ input = None
    /\ EmptyFiles

NextResolve ==
    \/ RP_Start
    \/ RP_AfterGet
    \/ RP_AfterFind
    \/ GatewayReturn

SpecResolve == InitResolve /\ [][NextResolve]_vars

(***************************************************************************)
(* resolve_or_create_path                                                  *)
(***************************************************************************)
\* a lookup under the root whatever the current object is
RocLookup_UnderRoot(cur, part) == FindCall(RootId, Some(part), 1)

\* the query "'{current_id}' in parents and name = '{part}' and trashed =
\* false" with max_files: 1
RocLookup(cur, part) == FindCall(cur, Some(part), 1)

\* a folder created under the root whatever the current object is
RocMkdir_UnderRoot(cur, part) == Call("mkdir", RootId, Some(part), FolderKind, 1)

\* files::mkdir::create_directory with name: part, parents: Some(vec![current_id])
RocMkdir(cur, part) == Call("mkdir", cur, Some(part), FolderKind, 1)

ROC_Start ==
    /\ pc = "roc_start"
    /\ parts' = PathParts(path)
    /\ current_id' = RootId
    /\ Issue(GetCall(RootId))
    /\ pc' = "roc_get"
    /\ UNCHANGED <<store, cmd, path, idx, current_file, result, repeatVars, extVars, wildVars, uploadVars, pushVars>>

ROC_AfterGet ==
    /\ pc = "roc_get"
    /\ Returned
    /\ IF LastCall.status # "ok"
       THEN /\ result' = Err("ApiError")
            /\ pc' = "roc_done"
            /\ UNCHANGED <<calls, idx, current_file>>
       ELSE IF parts = << >>
       THEN /\ result' = Ok(Some(LastCall.res[1]))
            /\ pc' = "roc_done"
            /\ UNCHANGED <<calls, idx, current_file>>
       ELSE /\ current_file' = Some(LastCall.res[1])
            /\ idx' = 1
            /\ Issue(RocLookup(current_id, parts[1]))
            /\ pc' = "roc_find"
            /\ UNCHANGED result
    /\ UNCHANGED <<store, cmd, path, parts, current_id, repeatVars, extVars, wildVars, uploadVars, pushVars>>

\* the end of one iteration of the segment loop, the current object being id
RocAdvance(id) ==
    /\ current_id' = id
    /\ current_file' = Some(id)
    /\ IF idx = Len(parts)
       THEN /\ result' = Ok(current_file')
            /\ pc' = "roc_done"
            /\ UNCHANGED <<calls, idx>>
       ELSE /\ idx' = idx + 1
            /\ Issue(RocLookup(id, parts[idx + 1]))
            /\ pc' = "roc_find"
            /\ UNCHANGED result

ROC_AfterFind ==
    /\ pc = "roc_find"
    /\ Returned
    /\ IF LastCall.status # "ok"
       THEN /\ result' = Err("ApiError")
            /\ pc' = "roc_done"
            /\ UNCHANGED <<calls, idx, current_id, current_file>>
       ELSE IF LastCall.res # << >>
       THEN RocAdvance(LastCall.res[1])
       ELSE /\ Issue(RocMkdir(current_id, parts[idx]))
            /\ pc' = "roc_mkdir"
            /\ UNCHANGED <<idx, current_id, current_file, result>>
    /\ UNCHANGED <<store, cmd, path, parts, repeatVars, extVars, wildVars, uploadVars, pushVars>>

\* a folder without an identifier is taken to have the default one
RocFolderCreated_DefaultId(res) ==
    RocAdvance(IF res = << >> THEN RootId ELSE res[1])

\* current_id = new_folder.id.clone().ok_or(PathResolutionError::MissingId)?
RocFolderCreated(res) ==
    IF res = << >>
    THEN /\ result' = Err("MissingId")
         /\ pc' = "roc_done"
         /\ UNCHANGED <<calls, idx, current_id, current_file>>
    ELSE RocAdvance(res[1])

ROC_AfterMkdir ==
    /\ pc = "roc_mkdir"
    /\ Returned
    /\ IF LastCall.status = "err"
       THEN /\ result' = Err("CreateDirectoryError")
            /\ pc' = "roc_done"
            /\ UNCHANGED <<calls, idx, current_id, current_file>>
       ELSE RocFolderCreated(LastCall.res)
    /\ UNCHANGED <<store, cmd, path, parts, repeatVars, extVars, wildVars, uploadVars, pushVars>>

\* the caller of the convergence property: a second call with the same path
\* once the first has returned a folder
ROC_CallAgain ==
    /\ cmd = "roc"
    /\ pc = "roc_done"
    /\ round = 1
    /\ result.tag = "Ok"
    /\ round' = 2
    /\ first_result' = result
    /\ first_calls' = Len(calls)
    /\ result' = NoResult
    /\ pc' = "roc_start"
    /\ UNCHANGED <<store, calls, cmd, path, parts, idx, current_id, current_file>>
    /\ UNCHANGED <<uploadVars, pushVars, wildVars, extVars>>

(***************************************************************************)
(* Specification of resolve_or_create_path: any path string against any    *)
(* store, called a second time after it succeeded.                         *)
(***************************************************************************)
InitRoc ==
    /\ store \in InitStores(MaxInitObjs, {FolderKind})
    /\ path \in StringsUpTo(PathChars, MaxPathChars)
    /\ calls = << >>
    /\ cmd = "roc"
    /\ pc = "roc_start"
    /\ parts = << >>
    /\ idx = 0
    /\ current_id = RootId
    /\ current_file = None
    /\ result = NoResult
    /\ round = 1
    /\ first_result = NoResult
    /\ first_calls = 0
    /\ Idle
    /\ wildcard_part = << >>
    /\ wildcard_regex = << >>
    /\ candidate = << >>
    /\ is_match = None
    /\ tree = [folders |-> {<< >>}, files |-> {}]
    /\ folder_order = << >>
    /\ root_files = << >>
    /\ parents = << >>
    /\ fi = 0
    /\ ui = 0
    /\ folder_ids = << >>
    /\ remote_path = << >>
    /\ local_is_dir = FALSE
    /\ local_name = << >>
    /\ recursive = FALSE
    /\ overwrite = FALSE
    /\ desired_name = None
    /\ upload_name = << >>
    /\ stdout = << >>
    /\ input = None
    /\ EmptyFiles

NextRoc ==
    \/ ROC_Start
    \/ ROC_AfterGet
    \/ ROC_AfterFind
    \/ ROC_AfterMkdir
    \/ ROC_CallAgain
    \/ GatewayReturn

SpecRoc == InitRoc /\ [][NextRoc]_vars

(***************************************************************************)
(* Properties of resolve_or_create_path.                                   *)
(***************************************************************************)
CallsOfSecond == {i \in 1..Len(calls) : round = 2 /\ i > first_calls}

FailedIn(S) == \E i \in S : calls[i].status \in {"err", "noid"}

\* C7: when resolve_or_create_path has returned a folder and is called again
\* with the same path, nothing else touching the store, the second call
\* issues no folder creation and returns the same identifier (unless a
\* Gateway call of the second call fails).
C7_RocConvergent ==
    (cmd = "roc" /\ round = 2) =>
        /\ \A i \in CallsOfSecond : ~IsWrite(calls[i])
        /\ pc = "roc_done" =>
              IF FailedIn(CallsOfSecond) THEN result = Err("ApiError")
              ELSE result = first_result

\* the first call created a folder below a folder it found, and the second
\* call has returned
C7_Witness ==
    /\ cmd = "roc"
    /\ round = 2
    /\ pc = "roc_done"
    /\ result = first_result
    /\ \E i \in 1..first_calls :
          calls[i].op = "mkdir" /\ calls[i].status = "ok" /\ calls[i].parent # RootId

\* C8: a folder creation is issued only right after the lookup of the same
\* segment under the current object returned no match, once, with the
\* current object as parent; a lookup that returned a match is followed by
\* the lookup of the next segment under the match, and a creation by the
\* lookup of the next segment under the new folder.
C8_RocCreatesOnlyMissing ==
    cmd = "roc" =>
        \A i \in 1..Len(calls) :
            /\ calls[i].op = "mkdir" =>
                  /\ i > 1
                  /\ calls[i - 1].op = "find"
                  /\ calls[i - 1].status = "ok"
                  /\ calls[i - 1].res = << >>
                  /\ calls[i].parent = calls[i - 1].parent
                  /\ calls[i].name = calls[i - 1].name
                  /\ calls[i].kind = FolderKind
            /\ (calls[i].op = "find" /\ calls[i].status = "ok" /\ i < Len(calls)) =>
                  IF calls[i].res = << >>
                  THEN calls[i + 1].op = "mkdir"
                  ELSE calls[i + 1].op \in {"find", "get"}
                       /\ (calls[i + 1].op = "find" => calls[i + 1].parent = calls[i].res[1])
            /\ (calls[i].op = "mkdir" /\ calls[i].status = "ok" /\ i < Len(calls)) =>
                  /\ calls[i + 1].op \in {"find", "get"}
                  /\ (calls[i + 1].op = "find" => calls[i + 1].parent = calls[i].res[1])
            /\ (calls[i].op = "find" /\ i > 1 /\ calls[i - 1].op = "get") =>
                  calls[i].parent = RootId

\* one call reused an existing folder, created a folder below it and went on
\* from the new folder
C8_Witness ==
    /\ cmd = "roc"
    /\ round = 1
    /\ pc = "roc_done"
    /\ result.tag = "Ok"
    /\ \E i \in 3..Len(calls) :
          /\ calls[i].op = "mkdir"
          /\ calls[i].parent # RootId
          /\ calls[i - 1].op = "find"
          /\ calls[i - 2].op = "find"
          /\ calls[i - 2].res = <<calls[i].parent>>
          /\ result.file = calls[i].res

(***************************************************************************)
(* Properties of resolve_path.                                             *)
(***************************************************************************)
\* the non-trashed children of cur that are named name
Matching(st, cur, name) ==
    {i \in 1..Len(st) : st[i].parent = cur /\ st[i].name = name /\ ~st[i].trashed}

FirstListed(S) == CHOOSE i \in S : \A j \in S : i <= j

\* following the segments in order from cur
RECURSIVE Follow(_, _, _)
Follow(st, cur, segs) ==
    IF segs = << >> THEN [ok |-> TRUE, id |-> cur, seg |-> << >>]
    ELSE IF Matching(st, cur, Head(segs)) = {}
         THEN [ok |-> FALSE, id |-> cur, seg |-> Head(segs)]
         ELSE Follow(st, FirstListed(Matching(st, cur, Head(segs))), Tail(segs))

SomeCallFailed == \E i \in 1..Len(calls) : calls[i].status = "err"

\* C5: for a path with at least one segment, resolve_path returns the object
\* reached by following the segments in order from the root among non-trashed
\* children, or fails with NotFound carrying the first segment that has no
\* matching child; any other outcome is a failed Gateway call (ApiError).
C5_ResolveFollowsSegments ==
    (cmd = "resolve" /\ pc = "rp_done" /\ PathParts(path) # << >>) =>
        LET r == Follow(store, RootId, PathParts(path)) IN
        IF SomeCallFailed THEN result = Err("ApiError")
        ELSE IF r.ok THEN result = Ok(Some(r.id))
        ELSE result = ErrSeg("NotFound", r.seg)

\* a two-segment path whose first segment is missing and differs from the last
C5_Witness ==
    /\ cmd = "resolve"
    /\ pc = "rp_done"
    /\ Len(parts) = 2
    /\ parts[1] # parts[2]
    /\ result = ErrSeg("NotFound", parts[1])
    /\ Matching(store, RootId, parts[2]) # {}

\* C6: resolve_path applied to a path with no segments returns the root
\* object and issues no Gateway call.
C6_EmptyPathReturnsRoot ==
    (cmd = "resolve" /\ pc = "rp_done" /\ PathParts(path) = << >>) =>
        (result = Ok(Some(RootId)) /\ calls = << >>)

(***************************************************************************)
(* upload_directory                                                        *)
(***************************************************************************)
\* a transfer that targets the object that bears the name under the parent
UploadFileId_Namesake(name, pid) ==
    IF Matching(store, pid, name) # {}
    THEN Some(FirstListed(Matching(store, pid, name)))
    ELSE None

\* the file_id handed to upload_file: None at each of its call sites
UploadFileId(name, pid) == None

\* hub.files().create(dst_file) of upload_file: id (file_id), name, mime type
\* (folder or not) and parents of the object to create
CreateCall(name, kind, pid) ==
    [Call("create", pid, Some(name), kind, 1) EXCEPT !.id = UploadFileId(name, pid)]

\* a map that keeps only the entry inserted last
Insert_Forget(ids, k, v) == [q \in {k} |-> v]

\* folder_ids.insert(folder_path, id)
Insert(ids, k, v) == [q \in (DOMAIN ids) \cup {k} |-> IF q = k THEN v ELSE ids[q]]

\* a folder loop that falls back on the root of the store, as the overwrite
\* guard does, when no destination is given
FolderParentId_DefaultRoot(f, ids, par) ==
    IF f = << >>
    THEN IF par # << >> THEN Some(par[1]) ELSE Some(RootId)
    ELSE IF RelativePath(Front(f)) \in DOMAIN ids
         THEN Some(ids[RelativePath(Front(f))])
         ELSE None

\* a folder loop that hands every folder the destination as its parent
FolderParentId_Destination(f, ids, par) ==
    IF par # << >> THEN Some(par[1]) ELSE None

\* let parent_id = if folder.parent.is_none() { config.parents[0] } else
\* { folder_ids.get(&parent.relative_path()) }, None where the code returns
\* Error::Other
FolderParentId(f, ids, par) ==
    IF f = << >>
    THEN IF par # << >> THEN Some(par[1]) ELSE None
    ELSE IF RelativePath(Front(f)) \in DOMAIN ids
         THEN Some(ids[RelativePath(Front(f))])
         ELSE None

\* a file loop that takes the folder created last as the parent of every file
FileParentId_LastCreated(f, ids, par) ==
    IF DOMAIN ids = {} THEN None
    ELSE Some(CHOOSE v \in {ids[q] : q \in DOMAIN ids} :
                \A q \in DOMAIN ids : ids[q] <= v)

\* folder_ids.get(parent_path).or_else(|| if parent_path == Path::new("")
\* { config.parents.first() } else { None })
FileParentId(f, ids, par) ==
    LET parent_path == ParentPathOf(RelativePath(f)) IN
    IF parent_path \in DOMAIN ids THEN Some(ids[parent_path])
    ELSE IF parent_path = << >> /\ par # << >> THEN Some(par[1])
    ELSE None

\* one iteration of `for folder in tree.folders()` up to its await
UdStartFolder(i, ids) ==
    LET f == folder_order[i]
        pid == FolderParentId(f, ids, parents)
    IN  IF pid = None
        THEN /\ result' = Err("Other")
             /\ pc' = "ud_done"
             /\ UNCHANGED calls
        ELSE /\ Issue(CreateCall(FileNameOf(RelativePath(f)), FolderKind, pid[1]))
             /\ pc' = "ud_folder"
             /\ UNCHANGED result

\* one iteration of `for file in tree.root.files()` up to its await, or the
\* end of the function when the loop is over
UdStartFile(j, ids) ==
    IF j > Len(root_files)
    THEN /\ result' = Ok(None)
         /\ pc' = "ud_done"
         /\ UNCHANGED calls
    ELSE LET f == root_files[j]
             pid == FileParentId(f, ids, parents)
         IN  IF pid = None
             THEN /\ result' = Err("Other")
                  /\ pc' = "ud_done"
                  /\ UNCHANGED calls
             ELSE \E opened \in BOOLEAN :
                     IF opened
                     THEN /\ Issue(CreateCall(FileNameOf(RelativePath(f)), FileKind, pid[1]))
                          /\ pc' = "ud_file"
                          /\ UNCHANGED result
                     ELSE /\ result' = Err("OpenFile")
                          /\ pc' = "ud_done"
                          /\ UNCHANGED calls

\* a folder loop that goes on with the next folder when a creation fails
UdFolderFailed_SkipFolder(i, ids) ==
    /\ folder_ids' = ids
    /\ IF i < Len(folder_order)
       THEN /\ fi' = i + 1
            /\ UdStartFolder(i + 1, ids)
            /\ UNCHANGED ui
       ELSE /\ ui' = 1
            /\ UdStartFile(1, ids)
            /\ UNCHANGED fi

\* upload_file(..).await.map_err(Error::Upload)? in the folder loop
UdFolderFailed(i, ids) ==
    /\ result' = Err("Upload")
    /\ pc' = "ud_done"
    /\ UNCHANGED <<calls, fi, ui, folder_ids>>

\* a file loop that goes on with the next file when an upload fails
UdFileFailed_SkipFile(j, ids) ==
    /\ ui' = j + 1
    /\ UdStartFile(j + 1, ids)

\* upload_file(..).await.map_err(Error::Upload)? in the file loop
UdFileFailed(j, ids) ==
    /\ result' = Err("Upload")
    /\ pc' = "ud_done"
    /\ UNCHANGED <<calls, ui>>

\* FileTree::info(): one descent from the root folder node, counting each
\* folder node, each of its file nodes and the size of each file
RECURSIVE FolderInfo(_, _, _)
RECURSIVE SumInfo(_, _, _)
FolderInfo(t, sz, d) ==
    LET own == {f \in t.files : Front(f) = d}
        sub == {g \in t.folders : g # << >> /\ Front(g) = d}
        below == SumInfo(t, sz, own \cup sub)
    IN  [file_count |-> below.file_count,
         folder_count |-> 1 + below.folder_count,
         total_file_size |-> below.total_file_size]

SumInfo(t, sz, S) ==
    IF S = {} THEN [file_count |-> 0, folder_count |-> 0, total_file_size |-> 0]
    ELSE LET e == CHOOSE q \in S : TRUE
             rest == SumInfo(t, sz, S \ {e})
             one == IF e \in t.files
                    THEN [file_count |-> 1, folder_count |-> 0, total_file_size |-> sz[e]]
                    ELSE FolderInfo(t, sz, e)
         IN  [file_count |-> one.file_count + rest.file_count,
              folder_count |-> one.folder_count + rest.folder_count,
              total_file_size |-> one.total_file_size + rest.total_file_size]

TreeInfo(t, sz) == FolderInfo(t, sz, << >>)

\* human_bytes(n as f64): bytes below 1024 as they are, above in tenths of KiB
HumanBytes(n) ==
    IF n < 1024
    THEN [value |-> n, unit |-> "B"]
    ELSE [value |-> (n * 10 + 512) \div 1024, unit |-> "KiB/10"]

\* a statistics line that prints the folder count where the file count goes
UdReport_SwappedCounts(out, line, info) ==
    IF print_only_id THEN out
    ELSE Append(out, [line |-> line,
                      file_count |-> info.folder_count,
                      folder_count |-> info.file_count,
                      total_file_size |-> HumanBytes(info.total_file_size)])

\* if !config.print_only_id { println!("<line> {} files in {} directories
\* with a total size of {}", file_count, folder_count, human_bytes(size)) }
UdReport(out, line, info) ==
    IF print_only_id THEN out
    ELSE Append(out, [line |-> line,
                      file_count |-> info.file_count,
                      folder_count |-> info.folder_count,
                      total_file_size |-> HumanBytes(info.total_file_size)])

\* the line printed once both loops are over
UdFinish ==
    reports' = IF pc' = "ud_done" /\ result'.tag = "Ok"
               THEN UdReport(reports, "Uploaded", tree_info[1])
               ELSE reports

UD_Start ==
    /\ pc = "ud_start"
    /\ folder_ids' = << >>
    /\ fi' = 1
    /\ UdStartFolder(1, << >>)
    /\ tree_info' = Some(TreeInfo(tree, sizes))
    /\ reports' = UdReport(reports, "Found", TreeInfo(tree, sizes))
    /\ UNCHANGED <<store, cmd, path, parts, idx, current_id, current_file, repeatVars, wildVars>>
    /\ UNCHANGED <<transferVars, cliVars, normVars, sizes, print_only_id>>
    /\ UNCHANGED <<tree, folder_order, root_files, parents, ui, pushVars>>

UD_AfterFolder ==
    /\ pc = "ud_folder"
    /\ Returned
    /\ IF LastCall.status = "err"
       THEN UdFolderFailed(fi, folder_ids)
       ELSE IF LastCall.res = << >>
       THEN /\ result' = Err("DriveFolderMissingId")
            /\ pc' = "ud_done"
            /\ UNCHANGED <<calls, fi, ui, folder_ids>>
       ELSE /\ folder_ids' = Insert(folder_ids, RelativePath(folder_order[fi]), LastCall.res[1])
            /\ IF fi < Len(folder_order)
               THEN /\ fi' = fi + 1
                    /\ UdStartFolder(fi + 1, folder_ids')
                    /\ UNCHANGED ui
               ELSE /\ ui' = 1
                    /\ UdStartFile(1, folder_ids')
                    /\ UNCHANGED fi
    /\ UdFinish
    /\ UNCHANGED <<store, cmd, path, parts, idx, current_id, current_file, repeatVars, wildVars>>
    /\ UNCHANGED <<transferVars, cliVars, normVars, sizes, print_only_id, tree_info>>
    /\ UNCHANGED <<tree, folder_order, root_files, parents, pushVars>>

UD_AfterFile ==
    /\ pc = "ud_file"
    /\ Returned
    /\ IF LastCall.status = "err"
       THEN UdFileFailed(ui, folder_ids)
       ELSE /\ ui' = ui + 1
            /\ UdStartFile(ui + 1, folder_ids)
    /\ UdFinish
    /\ UNCHANGED <<store, cmd, path, parts, idx, current_id, current_file, repeatVars, wildVars>>
    /\ UNCHANGED <<transferVars, cliVars, normVars, sizes, print_only_id, tree_info>>
    /\ UNCHANGED <<tree, folder_order, root_files, parents, fi, folder_ids, pushVars>>

(***************************************************************************)
(* Specification of upload_directory: any local tree, any order of its     *)
(* folders that puts parents first, with and without a destination.        *)
(***************************************************************************)
\* the remote store holds one folder, the destination
DestinationStore ==
    <<[name |-> <<"x">>, parent |-> RootId, kind |-> FolderKind, trashed |-> FALSE]>>

InitUpload ==
    /\ store = DestinationStore
    /\ tree \in Trees(MaxEntries, MaxDepth)
    /\ folder_order \in FolderOrders(tree)
    /\ root_files \in Orderings(RootFiles(tree))
    /\ parents \in {<< >>, <<RootId>>, <<Len(DestinationStore)>>}
    /\ calls = << >>
    /\ cmd = "upload_directory"
    /\ pc = "ud_start"
    /\ fi = 0
    /\ ui = 0
    /\ folder_ids = << >>
    /\ remote_path = << >>
    /\ local_is_dir = FALSE
    /\ local_name = << >>
    /\ recursive = FALSE
    /\ overwrite = FALSE
    /\ desired_name = None
    /\ upload_name = << >>
    /\ stdout = << >>
    /\ input = None
    /\ path = << >>
    /\ parts = << >>
    /\ idx = 0
    /\ current_id = RootId
    /\ current_file = None
    /\ result = NoResult
    /\ round = 1
    /\ first_result = NoResult
    /\ first_calls = 0
    /\ Idle
    /\ wildcard_part = << >>
    /\ wildcard_regex = << >>
    /\ candidate = << >>
    /\ is_match = None
    /\ EmptyFiles

NextUpload ==
    \/ UD_Start
    \/ UD_AfterFolder
    \/ UD_AfterFile
    \/ GatewayReturn

SpecUpload == InitUpload /\ [][NextUpload]_vars

\* upload_directory runs on one task that is never cancelled: the code after
\* an await runs once the await is over, and every Gateway call returns (the
\* retries of upload_file are bounded by max_retries)
FairUpload ==
    /\ WF_vars(UD_Start)
    /\ WF_vars(UD_AfterFolder)
    /\ WF_vars(UD_AfterFile)
    /\ WF_vars(GatewayReturn)

SpecUploadLive == InitUpload /\ [][NextUpload]_vars /\ FairUpload

(***************************************************************************)
(* Properties of upload_directory.  In a run of upload_directory alone the *)
(* Gateway calls are the creations, in the order of the two loops: call i  *)
(* creates folder_order[i], and the calls after the last folder create the *)
(* files of root_files in order.                                           *)
(***************************************************************************)
NumFolders == Len(folder_order)

IndexOf(seq, e) == CHOOSE j \in 1..Len(seq) : seq[j] = e

\* C1: the identifier passed as the parent of a folder other than the root
\* is the one returned by the creation call of its parent node, a call of
\* this run that had completed when the folder's call was issued.
C1_ParentCreatedFirst ==
    cmd = "upload_directory" =>
        \A i \in 1..Len(calls) :
            (i <= NumFolders /\ folder_order[i] # << >>) =>
                \E j \in 1..(i - 1) :
                    /\ folder_order[j] = Front(folder_order[i])
                    /\ calls[j].kind = FolderKind
                    /\ calls[j].status = "ok"
                    /\ calls[j].res = <<calls[i].parent>>

\* the creation of a folder two levels below the root has been issued
C1_Witness ==
    /\ cmd = "upload_directory"
    /\ \E i \in 1..Len(calls) :
          /\ i <= NumFolders
          /\ Len(folder_order[i]) = 2
          /\ calls[i].kind = FolderKind
          /\ calls[i].status = "ok"

\* C2: a file creation is issued only when every folder of the tree has been
\* created, and its parent is the identifier the FolderIdMap records for the
\* file's folder, returned by that folder's creation call, or the destination
\* for a file of the root folder.
C2_FileAfterFolders ==
    cmd = "upload_directory" =>
        \A i \in 1..Len(calls) :
            calls[i].kind = FileKind =>
                LET f == root_files[i - NumFolders]
                    pp == Front(f)
                IN  /\ i > NumFolders
                    /\ \A j \in 1..NumFolders : calls[j].status = "ok"
                    /\ \/ /\ pp \in DOMAIN folder_ids
                          /\ calls[i].parent = folder_ids[pp]
                          /\ calls[IndexOf(folder_order, pp)].res = <<calls[i].parent>>
                       \/ /\ pp = << >>
                          /\ parents # << >>
                          /\ calls[i].parent = parents[1]

\* a file of the root folder has been created in a tree that has a sub-folder
C2_Witness ==
    /\ cmd = "upload_directory"
    /\ NumFolders > 1
    /\ \E i \in 1..Len(calls) : calls[i].kind = FileKind /\ calls[i].status = "ok"

\* the creation calls issued for file node f: its name under the folder
\* created for its parent directory
FileCreations(f) ==
    {i \in 1..Len(calls) :
        /\ calls[i].kind = FileKind
        /\ calls[i].name = Some(Last(f))
        /\ Front(f) \in DOMAIN folder_ids
        /\ calls[i].parent = folder_ids[Front(f)]}

\* C3: a run in which no Gateway call and no file open fails issues exactly
\* one file creation for every file node of the tree, at every depth.
C3_EveryFileUploaded ==
    (cmd = "upload_directory" /\ pc = "ud_done" /\ result.tag = "Ok") =>
        \A f \in tree.files : Cardinality(FileCreations(f)) = 1

\* C4: the tree root/{a.txt, sub/{b.txt}} sent to parent P creates sub and
\* a.txt directly under P and b.txt under the new sub, two file creations in
\* all (a.txt and b.txt are the files x, sub the folder y).
C4_EndToEndPlacement ==
    (/\ cmd = "upload_directory"
     /\ pc = "ud_done"
     /\ result.tag = "Ok"
     /\ tree = [folders |-> {<< >>, <<<<"y">>>>}, files |-> {<<<<"x">>>>, <<<<"y">>, <<"x">>>>}]
     /\ parents # << >>) =>
        /\ \E i \in 1..Len(calls) :
              /\ calls[i].kind = FolderKind
              /\ calls[i].name = Some(<<"y">>)
              /\ calls[i].parent = parents[1]
              /\ calls[i].status = "ok"
              /\ \E k \in 1..Len(calls) :
                    /\ calls[k].kind = FileKind
                    /\ calls[k].name = Some(<<"x">>)
                    /\ <<calls[k].parent>> = calls[i].res
        /\ \E k \in 1..Len(calls) :
              /\ calls[k].kind = FileKind
              /\ calls[k].name = Some(<<"x">>)
              /\ calls[k].parent = parents[1]
        /\ Cardinality({k \in 1..Len(calls) : calls[k].kind = FileKind}) = 2

\* the objects the creation calls of this run have added to the store
CreatedObjects == {i \in 1..Len(calls) : calls[i].status \in {"ok", "noid"}}

\* C15: a folder creation that fails (an error, or an answer without an
\* identifier) is the last call of the run: the function returns an error,
\* no folder or file creation follows, and the folders created before it
\* stay in the store (every call of the run is a creation, none a deletion).
C15_FolderFailureAborts ==
    cmd = "upload_directory" =>
        \A i \in 1..Len(calls) :
            (calls[i].kind = FolderKind /\ calls[i].status \in {"err", "noid"}) =>
                /\ i = Len(calls)
                /\ pc \in {"ud_folder", "ud_done"}
                /\ pc = "ud_done" => result.tag \in {"Upload", "DriveFolderMissingId"}
                /\ \A k \in 1..Len(calls) : calls[k].op = "create" /\ calls[k].kind = FolderKind
                /\ Len(store) = Len(DestinationStore) + Cardinality(CreatedObjects)
                /\ \A k \in 1..(i - 1) :
                      /\ store[Len(DestinationStore) + k].name = calls[k].name[1]
                      /\ ~store[Len(DestinationStore) + k].trashed

\* the creation of the second folder has failed in a tree that has files,
\* and the function has returned
C15_Witness ==
    /\ cmd = "upload_directory"
    /\ pc = "ud_done"
    /\ Len(calls) = 2
    /\ calls[1].status = "ok"
    /\ calls[2].status = "err"
    /\ root_files # << >>

\* C16: in the file loop call NumFolders + j is the one creation of file j;
\* when it fails, or when file j cannot be opened, the function returns the
\* error and no creation is issued for file j again or for a later file.
C16_FileFailureAborts ==
    cmd = "upload_directory" =>
        /\ \A i \in 1..Len(calls) :
              calls[i].kind = FileKind =>
                  /\ i - NumFolders \in 1..Len(root_files)
                  /\ calls[i].name = Some(Last(root_files[i - NumFolders]))
                  /\ calls[i].status = "err" =>
                        /\ i = Len(calls)
                        /\ pc \in {"ud_file", "ud_done"}
                        /\ pc = "ud_done" => result = Err("Upload")
        /\ (pc = "ud_done" /\ result = Err("OpenFile")) =>
              /\ Len(calls) < NumFolders + Len(root_files)
              /\ \A i \in 1..Len(calls) : calls[i].status # "err"

\* the upload of the first of two files has failed and the function has
\* returned
C16_Witness ==
    /\ cmd = "upload_directory"
    /\ pc = "ud_done"
    /\ Len(root_files) = 2
    /\ Len(calls) = NumFolders + 1
    /\ calls[Len(calls)].kind = FileKind
    /\ calls[Len(calls)].status = "err"

\* upload_directory has returned
Terminated == pc = "ud_done"

\* a creation has been issued for every folder and every file of the tree
AllSubmitted ==
    /\ \A f \in tree.folders :
          \E i \in 1..Len(calls) :
              calls[i].kind = FolderKind /\ calls[i].name = Some(FileNameOf(RelativePath(f)))
    /\ \A f \in tree.files :
          \E i \in 1..Len(calls) :
              calls[i].kind = FileKind /\ calls[i].name = Some(FileNameOf(RelativePath(f)))
    /\ Len(calls) = Cardinality(tree.folders) + Cardinality(tree.files)

\* C17: when every Gateway call returns, the transfer of a tree terminates:
\* it returns an error, or it returns Ok after a creation was issued for
\* every folder and every file of the tree.
C17_TransferTerminates ==
    /\ <>Terminated
    /\ []((Terminated /\ result.tag = "Ok") => AllSubmitted)

(***************************************************************************)
(* The confirmation prompt.                                                *)
(***************************************************************************)
Newline == "\n"
Blank == " "
Whitespace == {Blank, Newline}

\* the lines the operator may enter, as read_line returns them (the empty
\* string is end of input)
InputLines ==
    { << >>,
      <<Newline>>,
      <<"y", Newline>>,
      <<"Y", Newline>>,
      <<"y", "e", "s", Newline>>,
      <<"Y", "e", "s", Newline>>,
      <<Blank, "y", Blank, Newline>>,
      <<"n", Newline>>,
      <<"n", "o", Newline>>,
      <<"y", "y", Newline>> }

\* str::trim()
RECURSIVE TrimLeft(_)
TrimLeft(l) == IF l # << >> /\ Head(l) \in Whitespace THEN TrimLeft(Tail(l)) ELSE l

RECURSIVE TrimRight(_)
TrimRight(l) ==
    IF l # << >> /\ l[Len(l)] \in Whitespace THEN TrimRight(SubSeq(l, 1, Len(l) - 1)) ELSE l

Trim(l) == TrimRight(TrimLeft(l))

\* str::to_lowercase()
LowerChar(c) ==
    CASE c = "Y" -> "y"
      [] c = "E" -> "e"
      [] c = "S" -> "s"
      [] c = "N" -> "n"
      [] c = "O" -> "o"
      [] OTHER -> c

ToLowercase(l) == [i \in 1..Len(l) |-> LowerChar(l[i])]

\* a prompt that compares the answer as typed
ConfirmOverwrite_CaseSensitive(line) ==
    Trim(line) = <<"y">> \/ Trim(line) = <<"y", "e", "s">>

\* a prompt whose default answer is yes
ConfirmOverwrite_DefaultYes(line) ==
    LET answer == ToLowercase(Trim(line)) IN
    answer = <<"y">> \/ answer = <<"y", "e", "s">> \/ answer = << >>

\* confirm_overwrite: input.trim().to_lowercase() is "y" or "yes"
ConfirmOverwrite(line) ==
    LET answer == ToLowercase(Trim(line)) IN
    answer = <<"y">> \/ answer = <<"y", "e", "s">>

(***************************************************************************)
(* Command::Push                                                           *)
(***************************************************************************)
\* the string without its last component (the characters after the last slash)
RECURSIVE DropLastComponent(_)
DropLastComponent(p) ==
    IF p = << >> \/ p[Len(p)] = Slash THEN p
    ELSE DropLastComponent(SubSeq(p, 1, Len(p) - 1))

\* Path::parent(): None for a path without components, else the path up to
\* its last component, without the separators before it (the root kept)
PathParent(p) ==
    IF PathParts(p) = << >> THEN None
    ELSE LET r == DropLastComponent(TrimEnd(p)) IN
         IF r # << >> /\ TrimEnd(r) = << >> THEN Some(<<Slash>>) ELSE Some(TrimEnd(r))

\* Path::file_name(): the last component
PathFileName(p) ==
    IF PathParts(p) = << >> THEN None ELSE Some(Last(PathParts(p)))

\* a push that takes the whole remote path as the destination directory
PushSplit_WholePath(rp) == [dir_path |-> rp, desired_name |-> PathFileName(rp)]

\* let (dir_path, desired_name) = ...
PushSplit(rp) ==
    IF rp # << >> /\ rp[Len(rp)] = Slash
    THEN [dir_path |-> rp, desired_name |-> None]
    ELSE IF PathParent(rp) # None
    THEN [dir_path |-> IF PathParent(rp)[1] = << >> THEN <<Slash>> ELSE PathParent(rp)[1],
          desired_name |-> PathFileName(rp)]
    ELSE [dir_path |-> <<Slash>>, desired_name |-> Some(rp)]

PUSH_Start ==
    /\ cmd = "push"
    /\ pc = "push_start"
    /\ path' = PushSplit(remote_path).dir_path
    /\ desired_name' = PushSplit(remote_path).desired_name
    /\ pc' = "roc_start"
    /\ UNCHANGED <<store, calls, cmd, parts, idx, current_id, current_file, result>>
    /\ UNCHANGED <<repeatVars, extVars, wildVars, uploadVars>>
    /\ UNCHANGED <<remote_path, local_is_dir, local_name, recursive, overwrite,
                   upload_name, stdout, input>>

\* a push that goes through the overwrite guard whatever the flag says
PushEntry_AlwaysGuard(ow) == "uwc_start"

\* if !overwrite { upload_with_overwrite_check(&hub, config) } else
\* { upload(config) }
PushEntry(ow) == IF ow THEN "upload_start" ELSE "uwc_start"

\* from the return of resolve_or_create_path to the call of upload or
\* upload_with_overwrite_check
PUSH_AfterResolve ==
    /\ cmd = "push"
    /\ pc = "roc_done"
    /\ IF result.tag # "Ok" \/ result.file = None
       THEN /\ pc' = "exit"
            /\ UNCHANGED <<parents, upload_name>>
       ELSE IF KindOf(store, result.file[1]) # FolderKind
       THEN /\ pc' = "exit"
            /\ UNCHANGED <<parents, upload_name>>
       ELSE IF desired_name # None /\ ~local_is_dir
       THEN \E copied \in BOOLEAN :
               IF copied
               THEN /\ upload_name' = desired_name[1]
                    /\ parents' = <<result.file[1]>>
                    /\ pc' = PushEntry(overwrite)
               ELSE /\ pc' = "exit"
                    /\ UNCHANGED <<parents, upload_name>>
       ELSE /\ upload_name' = local_name
            /\ parents' = <<result.file[1]>>
            /\ pc' = PushEntry(overwrite)
    /\ UNCHANGED <<store, calls, cmd, resolverVars, repeatVars, extVars, wildVars>>
    /\ UNCHANGED <<tree, folder_order, root_files, fi, ui, folder_ids>>
    /\ UNCHANGED <<remote_path, local_is_dir, local_name, recursive, overwrite,
                   desired_name, stdout, input>>

(***************************************************************************)
(* upload_with_overwrite_check                                             *)
(***************************************************************************)
\* match &config.parents { Some(parents) if !parents.is_empty() => &parents[0],
\* _ => "root" }
GuardParent(par) == IF par # << >> THEN par[1] ELSE RootId

\* max_files of the listing for a recursive directory upload
GuardListLimit == 100

ListCall(pid, limit) == Call("find", pid, None, FolderKind, limit)

\* std::fs::read_dir(&config.file_path): the top-level entries of the tree
TopLevelEntries(t) == {e \in t.folders \cup t.files : Len(e) = 1}

\* the local top-level names that are the name of a listed remote object
PotentialOverwrites(t, st, listed) ==
    {Last(e) : e \in {d \in TopLevelEntries(t) :
                        \E k \in 1..Len(listed) : st[listed[k]].name = Last(d)}}

Println(out, kind, names) == Append(out, [kind |-> kind, names |-> names])

\* the lines printed before the prompt of a directory upload: the list of
\* the names that will be overwritten, or that there is none
GuardReport(out, names) ==
    IF names # {} THEN Println(out, "WillBeOverwritten", names)
    ELSE Println(out, "NoneOverwritten", {})

UWC_Start ==
    /\ pc = "uwc_start"
    /\ IF local_is_dir /\ recursive
       THEN /\ Issue(ListCall(GuardParent(parents), GuardListLimit))
            /\ pc' = "uwc_list"
            /\ UNCHANGED result
       ELSE IF local_is_dir
       THEN /\ result' = Err("IsDirectory")
            /\ pc' = "exit"
            /\ UNCHANGED calls
       ELSE /\ Issue(FindCall(GuardParent(parents), Some(upload_name), 1))
            /\ pc' = "uwc_find"
            /\ UNCHANGED result
    /\ UNCHANGED <<store, cmd, path, parts, idx, current_id, current_file>>
    /\ UNCHANGED <<repeatVars, extVars, wildVars, uploadVars, pushVars>>

UWC_AfterList ==
    /\ pc = "uwc_list"
    /\ Returned
    /\ IF LastCall.status # "ok"
       THEN /\ result' = Err("Other")
            /\ pc' = "exit"
            /\ UNCHANGED stdout
       ELSE /\ stdout' = Println(GuardReport(stdout, PotentialOverwrites(tree, store, LastCall.res)),
                               "Continue", {})
            /\ pc' = "uwc_confirm"
            /\ UNCHANGED result
    /\ UNCHANGED <<store, calls, cmd, path, parts, idx, current_id, current_file>>
    /\ UNCHANGED <<repeatVars, extVars, wildVars, uploadVars>>
    /\ UNCHANGED <<remote_path, local_is_dir, local_name, recursive, overwrite,
                   desired_name, upload_name, input>>

UWC_AfterFind ==
    /\ pc = "uwc_find"
    /\ Returned
    /\ IF LastCall.status # "ok"
       THEN /\ result' = Err("Other")
            /\ pc' = "exit"
            /\ UNCHANGED stdout
       ELSE IF LastCall.res # << >>
       THEN /\ stdout' = Println(Println(stdout, "AlreadyExists", {upload_name}), "Overwrite", {})
            /\ pc' = "uwc_confirm"
            /\ UNCHANGED result
       ELSE /\ pc' = "upload_start"
            /\ UNCHANGED <<result, stdout>>
    /\ UNCHANGED <<store, calls, cmd, path, parts, idx, current_id, current_file>>
    /\ UNCHANGED <<repeatVars, extVars, wildVars, uploadVars>>
    /\ UNCHANGED <<remote_path, local_is_dir, local_name, recursive, overwrite,
                   desired_name, upload_name, input>>

\* the operator answers the prompt
UWC_Confirm ==
    /\ pc = "uwc_confirm"
    /\ \E line \in InputLines :
        /\ input' = Some(line)
        /\ IF ~ConfirmOverwrite(line)
           THEN /\ stdout' = Println(stdout, "Cancelled", {})
                /\ result' = Ok(None)
                /\ pc' = "done"
           ELSE /\ pc' = IF local_is_dir THEN "ud_start" ELSE "upload_start"
                /\ UNCHANGED <<result, stdout>>
    /\ UNCHANGED <<store, calls, cmd, path, parts, idx, current_id, current_file>>
    /\ UNCHANGED <<repeatVars, extVars, wildVars, uploadVars>>
    /\ UNCHANGED <<remote_path, local_is_dir, local_name, recursive, overwrite,
                   desired_name, upload_name>>

(***************************************************************************)
(* upload and upload_regular                                               *)
(***************************************************************************)
\* err_if_directory
ErrIfDirectory(isDir, uploadDirectories) == isDir /\ ~uploadDirectories

\* the error err_if_directory returns: Error::Other("'..' is a directory. Use
\* --recursive to upload directories.")
UploadDirectoryError == Err("Other")

\* upload: get_hub, err_if_directory, then upload_directory or upload_regular
\* up to its await
UPLOAD_Start ==
    /\ pc = "upload_start"
    /\ \E hub \in BOOLEAN :
        IF ~hub
        THEN /\ result' = Err("Hub")
             /\ pc' = "exit"
             /\ UNCHANGED calls
        ELSE IF ErrIfDirectory(local_is_dir, recursive)
        THEN /\ result' = UploadDirectoryError
             /\ pc' = "exit"
             /\ UNCHANGED calls
        ELSE IF local_is_dir
        THEN /\ pc' = "ud_start"
             /\ UNCHANGED <<calls, result>>
        ELSE \E opened \in BOOLEAN :
                IF opened
                THEN /\ Issue(CreateCall(upload_name, FileKind, GuardParent(parents)))
                     /\ pc' = "ur_create"
                     /\ UNCHANGED result
                ELSE /\ result' = Err("OpenFile")
                     /\ pc' = "exit"
                     /\ UNCHANGED calls
    /\ UNCHANGED <<store, cmd, path, parts, idx, current_id, current_file>>
    /\ UNCHANGED <<repeatVars, extVars, wildVars, uploadVars, pushVars>>

UR_AfterCreate ==
    /\ pc = "ur_create"
    /\ Returned
    /\ IF LastCall.status = "err"
       THEN /\ result' = Err("Upload")
            /\ pc' = "exit"
       ELSE /\ result' = Ok(LastCall.res)
            /\ pc' = "done"
    /\ UNCHANGED <<store, calls, cmd, path, parts, idx, current_id, current_file>>
    /\ UNCHANGED <<repeatVars, extVars, wildVars, uploadVars, pushVars>>

(***************************************************************************)
(* Specification of push for a single local file: any remote path of a few *)
(* segments, any small store, with and without the overwrite flag (the     *)
(* recursive flag is read for a directory only).                           *)
(***************************************************************************)
RECURSIVE JoinSegments(_)
JoinSegments(segs) ==
    IF segs = << >> THEN << >>
    ELSE IF Len(segs) = 1 THEN segs[1]
    ELSE segs[1] \o <<Slash>> \o JoinSegments(Tail(segs))

\* the remote paths of at most n segments, with or without a leading and a
\* trailing slash
PushPaths(n) ==
    {lead \o JoinSegments(segs) \o trail :
        lead \in {<< >>, <<Slash>>},
        segs \in UNION {[1..k -> Names] : k \in 0..n},
        trail \in {<< >>, <<Slash>>}}

InitPush ==
    /\ store \in InitStores(MaxPushObjs, {FolderKind, FileKind})
    /\ remote_path \in PushPaths(MaxPushSegs)
    /\ local_is_dir = FALSE
    /\ local_name \in Names
    /\ recursive = FALSE
    /\ overwrite \in BOOLEAN
    /\ cmd = "push"
    /\ pc = "push_start"
    /\ calls = << >>
    /\ desired_name = None
    /\ upload_name = << >>
    /\ stdout = << >>
    /\ input = None
    /\ tree = [folders |-> {<< >>}, files |-> {}]
    /\ folder_order = << >>
    /\ root_files = << >>
    /\ parents = << >>
    /\ fi = 0
    /\ ui = 0
    /\ folder_ids = << >>
    /\ path = << >>
    /\ parts = << >>
    /\ idx = 0
    /\ current_id = RootId
    /\ current_file = None
    /\ result = NoResult
    /\ round = 1
    /\ first_result = NoResult
    /\ first_calls = 0
    /\ Idle
    /\ wildcard_part = << >>
    /\ wildcard_regex = << >>
    /\ candidate = << >>
    /\ is_match = None
    /\ EmptyFiles

NextPush ==
    \/ PUSH_Start
    \/ ROC_Start
    \/ ROC_AfterGet
    \/ ROC_AfterFind
    \/ ROC_AfterMkdir
    \/ PUSH_AfterResolve
    \/ UWC_Start
    \/ UWC_AfterFind
    \/ UWC_Confirm
    \/ UPLOAD_Start
    \/ UR_AfterCreate
    \/ GatewayReturn

SpecPush == InitPush /\ [][NextPush]_vars

(***************************************************************************)
(* Specification of push to the root of the store ("/"), of a single file  *)
(* or of a local directory, with and without the recursive and overwrite   *)
(* flags, the root holding any few objects.                                *)
(***************************************************************************)
InitPushDir ==
    /\ store \in InitStores(MaxPushObjs, {FolderKind})
    /\ remote_path = <<Slash>>
    /\ local_is_dir \in BOOLEAN
    /\ local_name \in (IF local_is_dir THEN {<<"x">>} ELSE Names)
    /\ tree \in (IF local_is_dir THEN Trees(MaxGuardEntries, MaxGuardDepth)
                 ELSE {[folders |-> {<< >>}, files |-> {}]})
    /\ folder_order \in (IF local_is_dir THEN FolderOrders(tree) ELSE {<< >>})
    /\ root_files \in (IF local_is_dir THEN Orderings(RootFiles(tree)) ELSE {<< >>})
    /\ recursive \in (IF local_is_dir THEN BOOLEAN ELSE {FALSE})
    /\ overwrite \in BOOLEAN
    /\ cmd = "push"
    /\ pc = "push_start"
    /\ calls = << >>
    /\ desired_name = None
    /\ upload_name = << >>
    /\ stdout = << >>
    /\ input = None
    /\ parents = << >>
    /\ fi = 0
    /\ ui = 0
    /\ folder_ids = << >>
    /\ path = << >>
    /\ parts = << >>
    /\ idx = 0
    /\ current_id = RootId
    /\ current_file = None
    /\ result = NoResult
    /\ round = 1
    /\ first_result = NoResult
    /\ first_calls = 0
    /\ Idle
    /\ wildcard_part = << >>
    /\ wildcard_regex = << >>
    /\ candidate = << >>
    /\ is_match = None
    /\ EmptyFiles

NextPushDir ==
    \/ PUSH_Start
    \/ ROC_Start
    \/ ROC_AfterGet
    \/ PUSH_AfterResolve
    \/ UWC_Start
    \/ UWC_AfterList
    \/ UWC_AfterFind
    \/ UWC_Confirm
    \/ UPLOAD_Start
    \/ UR_AfterCreate
    \/ UD_Start
    \/ UD_AfterFolder
    \/ UD_AfterFile
    \/ GatewayReturn

SpecPushDir == InitPushDir /\ [][NextPushDir]_vars

(***************************************************************************)
(* Properties of push.                                                     *)
(***************************************************************************)
Indices(op) == {i \in 1..Len(calls) : calls[i].op = op}

Created(op) == {i \in Indices(op) : calls[i].status \in {"ok", "noid"}}

\* the store as it was before the calls of the given kinds added to it (the
\* Gateway appends what it creates)
StoreBefore(ops) ==
    SubSeq(store, 1, Len(store) - Cardinality(UNION {Created(op) : op \in ops}))

PushParts == PathParts(remote_path)

\* the remote path is /x/y/z with /x in the store and /x/y not
XExistsYMissing ==
    /\ Len(PushParts) = 3
    /\ remote_path[Len(remote_path)] # Slash
    /\ Matching(StoreBefore({"mkdir", "create"}), RootId, PushParts[1]) # {}
    /\ Matching(StoreBefore({"mkdir", "create"}),
                FirstListed(Matching(StoreBefore({"mkdir", "create"}), RootId, PushParts[1])),
                PushParts[2]) = {}

\* C9: pushing a file to /x/y/z when /x exists and /x/y does not issues one
\* folder creation, of y under x, and the file creation of z is issued after
\* it has returned, with the new folder as parent.
C9_PushCreatesOneFolder ==
    (cmd = "push" /\ ~local_is_dir /\ XExistsYMissing) =>
        LET x == FirstListed(Matching(StoreBefore({"mkdir", "create"}), RootId, PushParts[1])) IN
        /\ Cardinality(Indices("mkdir")) <= 1
        /\ \A i \in Indices("mkdir") :
              calls[i].name = Some(PushParts[2]) /\ calls[i].parent = x
        /\ \A k \in Indices("create") :
              /\ calls[k].kind = FileKind
              /\ calls[k].name = Some(PushParts[3])
              /\ \E i \in Indices("mkdir") :
                    i < k /\ calls[i].status = "ok" /\ calls[i].res = <<calls[k].parent>>
        /\ pc = "done" => Cardinality(Indices("mkdir")) = 1 /\ Cardinality(Created("create")) = 1

\* such a push has run to its end
C9_Witness ==
    /\ cmd = "push"
    /\ ~local_is_dir
    /\ XExistsYMissing
    /\ pc = "done"
    /\ Cardinality(Created("create")) = 1

\* the answers that are a refusal or empty
RefusalLines == {<< >>, <<Newline>>, <<"n", Newline>>, <<"n", "o", Newline>>}

\* the overwrite guard has looked the file name up under the destination,
\* which holds an object of that name
GuardFoundName ==
    /\ cmd = "push"
    /\ ~local_is_dir
    /\ ~overwrite
    /\ pc \in {"uwc_confirm", "upload_start", "ur_create", "done"}
    /\ Matching(StoreBefore({"create"}), GuardParent(parents), upload_name) # {}

GuardPcs == {"uwc_start", "uwc_list", "uwc_find", "uwc_confirm"}

TransferPcs == {"upload_start", "ur_create", "ud_start", "ud_folder", "ud_file", "ud_done"}

\* the top-level local names about to be transferred
LocalTopNames ==
    IF local_is_dir THEN {Last(e) : e \in TopLevelEntries(tree)} ELSE {upload_name}

\* the names of the non-trashed children the destination had before the
\* transfer
DestinationNames ==
    LET before == StoreBefore({"create"}) IN
    {before[i].name : i \in {k \in 1..Len(before) :
                                before[k].parent = GuardParent(parents) /\ ~before[k].trashed}}

Collisions == LocalTopNames \cap DestinationNames

\* the destination has been resolved and the configuration of the transfer
\* built
PushConfigured == cmd = "push" /\ parents # << >>

\* C11: with the overwrite flag set, push never enters the overwrite guard:
\* no listing or lookup of the destination's children is issued, nothing is
\* printed or read for a confirmation, and once the destination is resolved
\* the transfer is started (the process ends only with the transfer's result
\* or error).
C11_OverwriteBypassesGuard ==
    (cmd = "push" /\ overwrite) =>
        /\ pc \notin GuardPcs
        /\ stdout = << >>
        /\ input = None
        /\ \A i \in 1..Len(calls) : calls[i].op # "find"
        /\ PushConfigured => pc \in TransferPcs \cup {"done", "exit"}
        /\ (PushConfigured /\ pc = "exit") => result.tag \notin {"Ok", "none"}
        /\ (calls # << >> /\ calls[1].status = "ok" /\ pc \notin {"roc_get", "roc_done"})
              => PushConfigured

\* a recursive directory push with the flag set has run to its end over a
\* destination that holds one of the directory's top-level names
C11_Witness ==
    /\ cmd = "push"
    /\ overwrite
    /\ local_is_dir
    /\ recursive
    /\ Collisions # {}
    /\ pc = "ud_done"
    /\ result.tag = "Ok"

\* the guard's listing of the destination has returned and the guard has
\* acted on it
GuardListed ==
    /\ cmd = "push"
    /\ ~overwrite
    /\ pc \notin {"uwc_list", "uwc_find"}
    /\ \E i \in 1..Len(calls) : calls[i].op = "find" /\ calls[i].status = "ok"

\* C12: the guard asks for confirmation exactly when a top-level local name
\* is the name of a non-trashed child of the destination, for a single file
\* and for a recursive directory alike; without such a collision the transfer
\* goes on without input from the operator.
C12_PromptIffCollision ==
    GuardListed => ((pc = "uwc_confirm" \/ input # None) <=> Collisions # {})

\* the words that are an affirmative answer, in any case
YesWords ==
    {<<a>> : a \in {"y", "Y"}}
        \cup {<<a, b, c>> : a \in {"y", "Y"}, b \in {"e", "E"}, c \in {"s", "S"}}

\* an affirmative word with whitespace around it
AffirmativeLines ==
    {pre \o w \o post : pre \in StringsUpTo(Whitespace, 1),
                        w \in YesWords,
                        post \in StringsUpTo(Whitespace, 2)}

\* C13: once the operator has answered the prompt, the transfer goes on if
\* and only if the answer is "y" or "yes" in any case with whitespace around
\* it; after any other answer, the empty one included, the operation is over
\* with "Upload cancelled." and no creation call.
C13_ProceedsIffYes ==
    (cmd = "push" /\ input # None) =>
        IF input[1] \in AffirmativeLines
        THEN /\ \A k \in 1..Len(stdout) : stdout[k].kind # "Cancelled"
             /\ pc \in TransferPcs \cup {"done", "exit"}
             /\ pc = "done" => \E i \in 1..Len(calls) : calls[i].op = "create"
        ELSE /\ stdout[Len(stdout)].kind = "Cancelled"
             /\ pc = "done"
             /\ result = Ok(None)
             /\ \A i \in 1..Len(calls) : calls[i].op # "create"

\* the operator has answered "Yes" to the prompt of a recursive directory
\* push, which has then run to its end
C13_Witness ==
    /\ cmd = "push"
    /\ local_is_dir
    /\ input = Some(<<"Y", "e", "s", Newline>>)
    /\ pc = "ud_done"
    /\ result.tag = "Ok"

\* C14: a push of a local directory without the recursive flag issues no
\* creation call and never enters the transfer of the tree; once the transfer
\* has been entered (through upload or through the overwrite guard) it ends
\* with the error IsDirectory.
C14_DirectoryNeedsRecursive ==
    (cmd = "push" /\ local_is_dir /\ ~recursive) =>
        /\ \A i \in 1..Len(calls) : ~IsWrite(calls[i])
        /\ pc \notin {"ud_start", "ud_folder", "ud_file", "ud_done", "ur_create", "done"}
        /\ (PushConfigured /\ pc = "exit" /\ result.tag # "Hub")
              => result = Err("IsDirectory")

(***************************************************************************)
(* wildcard_to_regex and the regular expressions it builds.  A compiled    *)
(* pattern is the sequence of its items: an assertion, or an atom with its *)
(* repetition.                                                             *)
(***************************************************************************)
Backslash == "\\"

\* the characters wildcard_to_regex escapes
EscapedChars == {".", "+", "(", ")", "[", "]", "{", "}", Backslash, "^", "$", "|"}

\* a translation that escapes nothing
TranslateChar_NoEscape(c) ==
    IF c = "*" THEN <<".", "*">>
    ELSE IF c = "?" THEN <<".">>
    ELSE <<c>>

\* match c { '*' => ".*", '?' => ".", '.' | '+' | .. => '\\' c, _ => c }
TranslateChar(c) ==
    IF c = "*" THEN <<".", "*">>
    ELSE IF c = "?" THEN <<".">>
    ELSE IF c \in EscapedChars THEN <<Backslash, c>>
    ELSE <<c>>

RECURSIVE TranslateChars(_)
TranslateChars(pattern) ==
    IF pattern = << >> THEN << >>
    ELSE TranslateChar(Head(pattern)) \o TranslateChars(Tail(pattern))

\* wildcard_to_regex: "^", the translation of every character, "$"
WildcardToRegex(pattern) == <<"^">> \o TranslateChars(pattern) \o <<"$">>

\* the characters of a regular expression that repeat the atom before them
Quantifiers == {"*", "+", "?"}

\* the other characters with a meaning of their own, which the patterns
\* built by wildcard_to_regex hold only escaped
GroupChars == {"(", ")", "[", "]", "{", "}", "|"}

Item(k, c, q) == [k |-> k, c |-> c, q |-> q]

\* regex::Regex::new: the items of the expression, None for an expression
\* that is not one of the forms above
RECURSIVE RegexItems(_, _)
RECURSIVE RegexRepeat(_, _, _, _)
RegexItems(r, acc) ==
    IF r = << >> THEN Some(acc)
    ELSE IF Head(r) = Backslash
    THEN IF Len(r) < 2 THEN None ELSE RegexRepeat(Tail(Tail(r)), acc, "lit", r[2])
    ELSE IF Head(r) = "." THEN RegexRepeat(Tail(r), acc, "any", ".")
    ELSE IF Head(r) = "^" THEN RegexItems(Tail(r), Append(acc, Item("start", "^", "one")))
    ELSE IF Head(r) = "$" THEN RegexItems(Tail(r), Append(acc, Item("end", "$", "one")))
    ELSE IF Head(r) \in Quantifiers \cup GroupChars THEN None
    ELSE RegexRepeat(Tail(r), acc, "lit", Head(r))

RegexRepeat(rest, acc, k, c) ==
    IF rest # << >> /\ Head(rest) \in Quantifiers
    THEN RegexItems(Tail(rest), Append(acc, Item(k, c, Head(rest))))
    ELSE RegexItems(rest, Append(acc, Item(k, c, "one")))

RegexNew(r) == RegexItems(r, << >>)

\* whether the atom of item t matches the character of s at pos: `.` is any
\* character but a line feed
AtomMatches(t, s, pos) ==
    /\ pos <= Len(s)
    /\ IF t.k = "any" THEN s[pos] # Newline ELSE s[pos] = t.c

\* whether the items from the i-th on match s from pos on
RECURSIVE MatchAt(_, _, _, _)
MatchAt(items, i, s, pos) ==
    IF i > Len(items) THEN TRUE
    ELSE LET t == items[i] IN
         IF t.k = "start" THEN pos = 1 /\ MatchAt(items, i + 1, s, pos)
         ELSE IF t.k = "end" THEN pos = Len(s) + 1 /\ MatchAt(items, i + 1, s, pos)
         ELSE IF t.q = "one" THEN AtomMatches(t, s, pos) /\ MatchAt(items, i + 1, s, pos + 1)
         ELSE IF t.q = "*"
         THEN \/ MatchAt(items, i + 1, s, pos)
              \/ AtomMatches(t, s, pos) /\ MatchAt(items, i, s, pos + 1)
         ELSE IF t.q = "+"
         THEN AtomMatches(t, s, pos)
                 /\ (MatchAt(items, i + 1, s, pos + 1) \/ MatchAt(items, i, s, pos + 1))
         ELSE \/ MatchAt(items, i + 1, s, pos)
              \/ AtomMatches(t, s, pos) /\ MatchAt(items, i + 1, s, pos + 1)

\* Regex::is_match: the expression matches somewhere in s
IsMatch(items, s) == \E pos \in 1..(Len(s) + 1) : MatchAt(items, 1, s, pos)

(***************************************************************************)
(* Specification of the wildcard translation: any wildcard segment is      *)
(* translated and compiled, and the pattern is matched against any name.   *)
(***************************************************************************)
\* the characters of a wildcard segment: letters, the two wildcards and
\* characters with a meaning in regular expressions
GlobChars == {"a", "*", "?", ".", "+", "("}

\* the characters of a name: the letter and the characters that have a
\* meaning in regular expressions
GlobNameChars == {"a", ".", "+", "("}

WTR_Translate ==
    /\ pc = "glob_start"
    /\ wildcard_regex' = WildcardToRegex(wildcard_part)
    /\ pc' = "glob_regex"
    /\ UNCHANGED <<store, calls, cmd, resolverVars, repeatVars, extVars, uploadVars, pushVars>>
    /\ UNCHANGED <<wildcard_part, candidate, is_match>>

\* regex::Regex::new(&wildcard_regex) and regex.is_match(name)
WTR_IsMatch ==
    /\ pc = "glob_regex"
    /\ IF RegexNew(wildcard_regex) = None
       THEN /\ result' = Err("InvalidWildcard")
            /\ UNCHANGED is_match
       ELSE /\ is_match' = Some(IsMatch(RegexNew(wildcard_regex)[1], candidate))
            /\ UNCHANGED result
    /\ pc' = "glob_done"
    /\ UNCHANGED <<store, calls, cmd, path, parts, idx, current_id, current_file>>
    /\ UNCHANGED <<repeatVars, extVars, uploadVars, pushVars>>
    /\ UNCHANGED <<wildcard_part, wildcard_regex, candidate>>

InitGlob ==
    /\ wildcard_part \in StringsUpTo(GlobChars, MaxGlobLen) \ {<< >>}
    /\ candidate \in StringsUpTo(GlobNameChars, MaxNameLen)
    /\ wildcard_regex = << >>
    /\ is_match = None
    /\ cmd = "wildcard_to_regex"
    /\ pc = "glob_start"
    /\ store = << >>
    /\ calls = << >>
    /\ path = << >>
    /\ parts = << >>
    /\ idx = 0
    /\ current_id = RootId
    /\ current_file = None
    /\ result = NoResult
    /\ round = 1
    /\ first_result = NoResult
    /\ first_calls = 0
    /\ Idle
    /\ tree = [folders |-> {<< >>}, files |-> {}]
    /\ folder_order = << >>
    /\ root_files = << >>
    /\ parents = << >>
    /\ fi = 0
    /\ ui = 0
    /\ folder_ids = << >>
    /\ remote_path = << >>
    /\ local_is_dir = FALSE
    /\ local_name = << >>
    /\ recursive = FALSE
    /\ overwrite = FALSE
    /\ desired_name = None
    /\ upload_name = << >>
    /\ stdout = << >>
    /\ input = None
    /\ EmptyFiles

NextGlob ==
    \/ WTR_Translate
    \/ WTR_IsMatch

SpecGlob == InitGlob /\ [][NextGlob]_vars

\* whether name s matches glob g: `*` is any run of characters, `?` one
\* character, any other character itself
RECURSIVE GlobMatches(_, _)
GlobMatches(g, s) ==
    IF g = << >> THEN s = << >>
    ELSE IF Head(g) = "*"
    THEN GlobMatches(Tail(g), s) \/ (s # << >> /\ GlobMatches(g, Tail(s)))
    ELSE IF Head(g) = "?"
    THEN s # << >> /\ GlobMatches(Tail(g), Tail(s))
    ELSE s # << >> /\ Head(s) = Head(g) /\ GlobMatches(Tail(g), Tail(s))

\* C18: the pattern compiled from a wildcard segment matches a name exactly
\* when the name matches the segment as a glob (`*` any run of characters,
\* `?` exactly one, every other character only itself), and the compilation
\* never fails.
C18_WildcardTranslation ==
    (cmd = "wildcard_to_regex" /\ pc = "glob_done") =>
        /\ result = NoResult
        /\ is_match = Some(GlobMatches(wildcard_part, candidate))

\* `*.a` has been matched against `a.a`
C18_Witness ==
    /\ cmd = "wildcard_to_regex"
    /\ pc = "glob_done"
    /\ wildcard_part = <<"*", ".", "a">>
    /\ candidate = <<"a", ".", "a">>
    /\ is_match = Some(TRUE)

(***************************************************************************)
(* resolve_wildcard_path                                                   *)
(***************************************************************************)
Contains(seg, c) == \E i \in 1..Len(seg) : seg[i] = c

\* parts.last().unwrap().contains('*')
HasWildcard(seg) == Contains(seg, "*")

\* max_files of the listing of the directory
WildcardListLimit == 1000

\* files.into_iter().filter(|file| regex.is_match(name)).collect()
RECURSIVE MatchingFiles(_, _, _)
MatchingFiles(st, ids, items) ==
    IF ids = << >> THEN << >>
    ELSE IF IsMatch(items, st[Head(ids)].name)
         THEN <<Head(ids)>> \o MatchingFiles(st, Tail(ids), items)
         ELSE MatchingFiles(st, Tail(ids), items)

\* the lookup of one segment before the last: q = name = '<part>' under cur,
\* one result at most
RwpLookup_ExpandWildcard(cur, part) ==
    FindCall(cur, IF HasWildcard(part) THEN None ELSE Some(part), 1)

RwpLookup(cur, part) == FindCall(cur, Some(part), 1)

\* if matching_files.is_empty() { Err(NoMatchesFound(wildcard_part)) }
\* else { Ok(matching_files) }
WildcardResult(matching_files, wp) ==
    IF matching_files = << >>
    THEN ErrSeg("NoMatchesFound", wp)
    ELSE Ok(matching_files)

\* from the end of the navigation to the await of the listing: the pattern
\* wp is translated and compiled, and the children of cur are listed
RwpList(cur, wp) ==
    /\ wildcard_regex' = WildcardToRegex(wp)
    /\ IF RegexNew(WildcardToRegex(wp)) = None
       THEN /\ result' = Err("InvalidWildcard")
            /\ pc' = "rwp_done"
            /\ UNCHANGED calls
       ELSE /\ Issue(FindCall(cur, None, WildcardListLimit))
            /\ pc' = "rwp_list"
            /\ UNCHANGED result

RWP_Start ==
    /\ pc = "rwp_start"
    /\ parts' = PathParts(path)
    /\ IF parts' = << >>
       THEN /\ result' = Err("InvalidPath")
            /\ pc' = "rwp_done"
            /\ UNCHANGED <<calls, idx, current_id, wildcard_part, wildcard_regex>>
       ELSE IF ~HasWildcard(Last(parts'))
       THEN /\ pc' = "rp_start"
            /\ UNCHANGED <<calls, result, idx, current_id, wildcard_part, wildcard_regex>>
       ELSE /\ wildcard_part' = Last(parts')
            /\ current_id' = RootId
            /\ IF Len(parts') = 1
               THEN /\ RwpList(RootId, Last(parts'))
                    /\ UNCHANGED idx
               ELSE /\ idx' = 1
                    /\ Issue(RwpLookup(RootId, parts'[1]))
                    /\ pc' = "rwp_find"
                    /\ UNCHANGED <<result, wildcard_regex>>
    /\ UNCHANGED <<store, cmd, path, current_file, repeatVars, extVars, uploadVars, pushVars>>
    /\ UNCHANGED <<candidate, is_match>>

\* let file = resolve_path(hub, path).await?; return Ok(vec![file])
RWP_AfterResolve ==
    /\ cmd = "wildcard"
    /\ pc = "rp_done"
    /\ result' = IF result.tag = "Ok" THEN Ok(<<result.file[1]>>) ELSE result
    /\ pc' = "rwp_done"
    /\ UNCHANGED <<store, calls, cmd, path, parts, idx, current_id, current_file>>
    /\ UNCHANGED <<repeatVars, extVars, uploadVars, pushVars, wildVars>>

RWP_AfterFind ==
    /\ pc = "rwp_find"
    /\ Returned
    /\ IF LastCall.status # "ok"
       THEN /\ result' = Err("ApiError")
            /\ pc' = "rwp_done"
            /\ UNCHANGED <<calls, idx, current_id, wildcard_regex>>
       ELSE IF LastCall.res # << >>
       THEN /\ current_id' = LastCall.res[1]
            /\ IF idx = Len(parts) - 1
               THEN /\ RwpList(LastCall.res[1], wildcard_part)
                    /\ UNCHANGED idx
               ELSE /\ idx' = idx + 1
                    /\ Issue(RwpLookup(LastCall.res[1], parts[idx + 1]))
                    /\ UNCHANGED <<pc, result, wildcard_regex>>
       ELSE /\ result' = ErrSeg("NotFound", parts[idx])
            /\ pc' = "rwp_done"
            /\ UNCHANGED <<calls, idx, current_id, wildcard_regex>>
    /\ UNCHANGED <<store, cmd, path, parts, current_file, repeatVars, extVars, uploadVars, pushVars>>
    /\ UNCHANGED <<wildcard_part, candidate, is_match>>

RWP_AfterList ==
    /\ pc = "rwp_list"
    /\ Returned
    /\ IF LastCall.status # "ok"
       THEN result' = Err("ApiError")
       ELSE result' = WildcardResult(
                MatchingFiles(store, LastCall.res, RegexNew(wildcard_regex)[1]),
                wildcard_part)
    /\ pc' = "rwp_done"
    /\ UNCHANGED <<store, calls, cmd, path, parts, idx, current_id, current_file>>
    /\ UNCHANGED <<repeatVars, extVars, uploadVars, pushVars, wildVars>>

(***************************************************************************)
(* Specification of resolve_wildcard_path: any path string, with and       *)
(* without wildcard characters, against any store.                         *)
(***************************************************************************)
WildPathChars == {"x", Slash, "*", "?"}

InitWildcard ==
    /\ store \in InitStores(MaxWildObjs, {FolderKind})
    /\ path \in StringsUpTo(WildPathChars, MaxWildChars)
    /\ calls = << >>
    /\ cmd = "wildcard"
    /\ pc = "rwp_start"
    /\ parts = << >>
    /\ idx = 0
    /\ current_id = RootId
    /\ current_file = None
    /\ result = NoResult
    /\ round = 1
    /\ first_result = NoResult
    /\ first_calls = 0
    /\ Idle
    /\ wildcard_part = << >>
    /\ wildcard_regex = << >>
    /\ candidate = << >>
    /\ is_match = None
    /\ tree = [folders |-> {<< >>}, files |-> {}]
    /\ folder_order = << >>
    /\ root_files = << >>
    /\ parents = << >>
    /\ fi = 0
    /\ ui = 0
    /\ folder_ids = << >>
    /\ remote_path = << >>
    /\ local_is_dir = FALSE
    /\ local_name = << >>
    /\ recursive = FALSE
    /\ overwrite = FALSE
    /\ desired_name = None
    /\ upload_name = << >>
    /\ stdout = << >>
    /\ input = None
    /\ EmptyFiles

NextWildcard ==
    \/ RWP_Start
    \/ RWP_AfterFind
    \/ RWP_AfterList
    \/ RWP_AfterResolve
    \/ RP_Start
    \/ RP_AfterGet
    \/ RP_AfterFind
    \/ GatewayReturn

SpecWildcard == InitWildcard /\ [][NextWildcard]_vars

(***************************************************************************)
(* Properties of resolve_wildcard_path.                                    *)
(***************************************************************************)
\* the segment holds a wildcard character, `*` or `?`
IsWildcardSegment(seg) == \E i \in 1..Len(seg) : seg[i] \in {"*", "?"}

\* resolve_path has been called: it alone fetches the root object
Delegated == \E i \in 1..Len(calls) : calls[i].op = "get"

\* C19: resolve_wildcard_path hands the path to resolve_path exactly when its
\* final segment holds neither `*` nor `?`; a final segment that holds one is
\* taken as the pattern and not looked up by name (only the segments before
\* it are).
C19_DelegatesIffNoWildcard ==
    (cmd = "wildcard" /\ pc = "rwp_done" /\ parts # << >>) =>
        /\ Delegated <=> ~IsWildcardSegment(Last(parts))
        /\ IsWildcardSegment(Last(parts)) =>
              /\ wildcard_part = Last(parts)
              /\ Cardinality({i \in 1..Len(calls) : calls[i].name # None}) < Len(parts)

\* the non-trashed children of d whose name matches the glob g
MatchingChildren(st, d, g) ==
    {i \in 1..Len(st) : st[i].parent = d /\ ~st[i].trashed /\ GlobMatches(g, st[i].name)}

\* C20: when the final segment is a wildcard and the segments before it lead
\* to directory D, every object resolve_wildcard_path returns is a non-trashed
\* child of D whose name matches the pattern, and when there is such a child
\* it returns all of them, each once.
C20_WildcardReturnsMatches ==
    (/\ cmd = "wildcard"
     /\ pc = "rwp_done"
     /\ parts # << >>
     /\ IsWildcardSegment(Last(parts))
     /\ ~SomeCallFailed
     /\ Follow(store, RootId, Front(parts)).ok) =>
        LET D == Follow(store, RootId, Front(parts)).id
            M == MatchingChildren(store, D, Last(parts))
        IN  /\ result.tag = "Ok" => \A k \in 1..Len(result.file) : result.file[k] \in M
            /\ M # {} =>
                  /\ result.tag = "Ok"
                  /\ \A i \in M : \E k \in 1..Len(result.file) : result.file[k] = i
                  /\ Len(result.file) = Cardinality(M)

\* C21: resolve_wildcard_path never succeeds with an empty list; when the
\* final segment is a wildcard and no child of the directory the earlier
\* segments lead to matches it, the result is NoMatchesFound carrying that
\* segment, whether the directory is empty or holds only other names.
C21_NoMatchIsAnError ==
    (cmd = "wildcard" /\ pc = "rwp_done") =>
        /\ result.tag = "Ok" => result.file # << >>
        /\ (/\ parts # << >>
            /\ IsWildcardSegment(Last(parts))
            /\ ~SomeCallFailed
            /\ Follow(store, RootId, Front(parts)).ok
            /\ MatchingChildren(store, Follow(store, RootId, Front(parts)).id,
                                Last(parts)) = {}) =>
                result = ErrSeg("NoMatchesFound", Last(parts))

\* the lookups by name, in the order they were issued
NamedLookups == SelectSeq(calls, LAMBDA c : c.op = "find" /\ c.name # None)

\* the listings of all children of a directory
Listings == {i \in 1..Len(calls) : calls[i].op = "find" /\ calls[i].name = None}

\* C22: in resolve_wildcard_path only the last segment is a pattern: the
\* k-th lookup asks for a child named exactly as the k-th segment, the
\* children of a directory are listed only once every earlier segment has
\* been found by name, and when an earlier segment has no child of that name
\* the result is NotFound naming it and no listing was issued.
C22_OnlyLastSegmentIsPattern ==
    (cmd = "wildcard" /\ Len(parts) >= 2 /\ IsWildcardSegment(Last(parts))) =>
        LET prefix == Follow(store, RootId, Front(parts))
        IN  /\ \A k \in 1..Len(NamedLookups) :
                  /\ NamedLookups[k].name = Some(parts[k])
                  /\ NamedLookups[k].limit = 1
            /\ \A i \in Listings : prefix.ok /\ calls[i].parent = prefix.id
            /\ (pc = "rwp_done" /\ ~SomeCallFailed /\ ~prefix.ok) =>
                  /\ result = ErrSeg("NotFound", prefix.seg)
                  /\ Listings = {}

\* an earlier segment that holds a wildcard character was looked up by name
\* in a directory that has children, and was not found
C22_Witness ==
    /\ cmd = "wildcard"
    /\ pc = "rwp_done"
    /\ Len(parts) >= 2
    /\ IsWildcardSegment(parts[1])
    /\ IsWildcardSegment(Last(parts))
    /\ \E i \in 1..Len(store) : store[i].parent = RootId /\ ~store[i].trashed
    /\ result = ErrSeg("NotFound", parts[1])

(***************************************************************************)
(* upload_file: the choice between the single-shot and the chunked         *)
(* transfer, and the chunked transfer under the delegate's backoff.  The   *)
(* chunk loop and the delegate are outside src/ and follow the             *)
(* specification's Transfer Engine; the sizes are in bytes, the delays in  *)
(* seconds.                                                                *)
(***************************************************************************)
\* BackoffConfig { max_retries, min_sleep, max_sleep }
MaxRetries == 100000

MinSleep == 1

MaxSleep_TwoMinutes == 2 * 60

MaxSleep == 60

\* folder_info.size of a folder creation
FolderSize == 0

\* chunk sizes are powers of two
ChunkSizes == {c \in 1..MaxFileSize : \E k \in 0..MaxFileSize : c = 2^k}

\* if file_info.size > chunk_size_bytes { upload_resumable } else { upload }
TransferMode_ChunkedAtBoundary(size, chunk) ==
    IF size >= chunk THEN "upload_resumable" ELSE "upload"

TransferMode(size, chunk) ==
    IF size > chunk THEN "upload_resumable" ELSE "upload"

\* capped exponential backoff: the first delay is the minimum, each later one
\* doubles the one before, and none exceeds the maximum
NextDelay(d) ==
    IF d = 0 THEN MinSleep
    ELSE IF 2 * d > MaxSleep THEN MaxSleep ELSE 2 * d

UF_Start ==
    /\ cmd = "upload_file"
    /\ pc = "uf_start"
    /\ mode' = TransferMode(file_size, chunk_size_bytes)
    /\ pc' = IF mode' = "upload_resumable" THEN "uf_chunk" ELSE "uf_single"
    /\ UNCHANGED <<store, calls, cmd, resolverVars, repeatVars, uploadVars, pushVars>>
    /\ UNCHANGED <<wildVars, statVars, cliVars, normVars, file_kind, file_size, chunk_size_bytes>>
    /\ UNCHANGED <<offset, attempts, delay, reply>>

\* req.upload(src_file, mime_type).await?: the whole body in one request
UF_Single ==
    /\ pc = "uf_single"
    /\ \E r \in {"ack", "fatal"} :
          /\ reply' = r
          /\ result' = IF r = "ack" THEN Ok(<< >>) ELSE Err("Upload")
          /\ offset' = IF r = "ack" THEN file_size ELSE offset
    /\ pc' = "uf_done"
    /\ UNCHANGED <<store, calls, cmd, path, parts, idx, current_id, current_file>>
    /\ UNCHANGED <<repeatVars, uploadVars, pushVars, wildVars, statVars, cliVars, normVars>>
    /\ UNCHANGED <<file_kind, file_size, chunk_size_bytes, mode, attempts, delay>>

\* the Gateway acknowledges the chunk that starts at offset
UF_ChunkAcked ==
    /\ pc = "uf_chunk"
    /\ reply' = "ack"
    /\ offset' = IF offset + chunk_size_bytes > file_size
                 THEN file_size
                 ELSE offset + chunk_size_bytes
    /\ IF offset' = file_size
       THEN /\ result' = Ok(<< >>)
            /\ pc' = "uf_done"
       ELSE UNCHANGED <<result, pc>>
    /\ UNCHANGED <<store, calls, cmd, path, parts, idx, current_id, current_file>>
    /\ UNCHANGED <<repeatVars, uploadVars, pushVars, wildVars, statVars, cliVars, normVars>>
    /\ UNCHANGED <<file_kind, file_size, chunk_size_bytes, mode, attempts, delay>>

\* a transient failure of the chunk at offset: the delegate grants a retry
\* after the next delay, or gives up once max_retries retries were granted
UF_ChunkFailed ==
    /\ pc = "uf_chunk"
    /\ reply' = "transient"
    /\ IF attempts >= MaxRetries
       THEN /\ result' = Err("Upload")
            /\ pc' = "uf_done"
            /\ UNCHANGED <<attempts, delay>>
       ELSE /\ attempts' = attempts + 1
            /\ delay' = NextDelay(delay)
            /\ UNCHANGED <<result, pc>>
    /\ UNCHANGED <<store, calls, cmd, path, parts, idx, current_id, current_file>>
    /\ UNCHANGED <<repeatVars, uploadVars, pushVars, wildVars, statVars, cliVars, normVars>>
    /\ UNCHANGED <<file_kind, file_size, chunk_size_bytes, mode, offset>>

\* a failure that is not transient ends the transfer at once
UF_ChunkRejected ==
    /\ pc = "uf_chunk"
    /\ reply' = "fatal"
    /\ result' = Err("Upload")
    /\ pc' = "uf_done"
    /\ UNCHANGED <<store, calls, cmd, path, parts, idx, current_id, current_file>>
    /\ UNCHANGED <<repeatVars, uploadVars, pushVars, wildVars, statVars, cliVars, normVars>>
    /\ UNCHANGED <<file_kind, file_size, chunk_size_bytes, mode, offset, attempts, delay>>

(***************************************************************************)
(* Specification of upload_file: a folder (size 0) or a file of any size,  *)
(* under any chunk size.                                                   *)
(***************************************************************************)
InitTransfer ==
    /\ store = << >>
    /\ calls = << >>
    /\ cmd = "upload_file"
    /\ pc = "uf_start"
    /\ path = << >>
    /\ parts = << >>
    /\ idx = 0
    /\ current_id = RootId
    /\ current_file = None
    /\ result = NoResult
    /\ round = 1
    /\ first_result = NoResult
    /\ first_calls = 0
    /\ tree = [folders |-> {<< >>}, files |-> {}]
    /\ folder_order = << >>
    /\ root_files = << >>
    /\ parents = << >>
    /\ fi = 0
    /\ ui = 0
    /\ folder_ids = << >>
    /\ remote_path = << >>
    /\ local_is_dir = FALSE
    /\ local_name = << >>
    /\ recursive = FALSE
    /\ overwrite = FALSE
    /\ desired_name = None
    /\ upload_name = << >>
    /\ stdout = << >>
    /\ input = None
    /\ wildcard_part = << >>
    /\ wildcard_regex = << >>
    /\ candidate = << >>
    /\ is_match = None
    /\ file_kind \in {FolderKind, FileKind}
    /\ file_size \in IF file_kind = FolderKind THEN {FolderSize} ELSE 0..MaxFileSize
    /\ chunk_size_bytes \in ChunkSizes
    /\ mode = "none"
    /\ offset = 0
    /\ attempts = 0
    /\ delay = 0
    /\ reply = "none"
    /\ NoStats
    /\ EmptyFiles
    /\ NoCli
    /\ NoOtherPath

NextTransfer ==
    \/ UF_Start
    \/ UF_Single
    \/ UF_ChunkAcked
    \/ UF_ChunkFailed
    \/ UF_ChunkRejected

SpecTransfer == InitTransfer /\ [][NextTransfer]_vars

\* C23: the transfer is chosen by size alone: single-shot when the size is at
\* most the chunk size in bytes, chunked when it is greater, so that a folder
\* creation, of size 0, is always single-shot.
C23_ModeBySize ==
    mode # "none" =>
        /\ mode = "upload" <=> file_size <= chunk_size_bytes
        /\ mode = "upload_resumable" <=> file_size > chunk_size_bytes
        /\ file_kind = FolderKind => mode = "upload"
        /\ pc = "uf_single" => mode = "upload"
        /\ pc = "uf_chunk" => mode = "upload_resumable"

\* a file of exactly one chunk has gone in one request
C23_Witness ==
    /\ pc = "uf_done"
    /\ file_kind = FileKind
    /\ file_size = chunk_size_bytes
    /\ mode = "upload"
    /\ result.tag = "Ok"

InitFolderCreation == InitRoc \/ InitUpload

NextFolderCreation == NextRoc \/ NextUpload

SpecFolderCreation == InitFolderCreation /\ [][NextFolderCreation]_vars

\* C25: a folder creation the Gateway answers without an identifier ends the
\* operation: it is the last Gateway call, resolve_or_create_path returns
\* MissingId with its current folder not advanced, and upload_directory
\* returns DriveFolderMissingId with no entry in folder_ids for that folder.
C25_MissingIdStops ==
    \A i \in 1..Len(calls) :
        (calls[i].kind = FolderKind /\ calls[i].status = "noid") =>
            /\ i = Len(calls)
            /\ cmd = "roc" =>
                  /\ calls[i].op = "mkdir"
                  /\ pc \in {"roc_mkdir", "roc_done"}
                  /\ pc = "roc_done" => result = Err("MissingId")
                  /\ current_id = calls[i].parent
            /\ cmd = "upload_directory" =>
                  /\ calls[i].op = "create"
                  /\ pc \in {"ud_folder", "ud_done"}
                  /\ pc = "ud_done" => result = Err("DriveFolderMissingId")
                  /\ fi = i
                  /\ RelativePath(folder_order[i]) \notin DOMAIN folder_ids
                  /\ Cardinality(DOMAIN folder_ids) = i - 1

\* resolve_or_create_path has returned MissingId for a folder below one it
\* found or created
C25_Witness ==
    /\ cmd = "roc"
    /\ pc = "roc_done"
    /\ result = Err("MissingId")
    /\ Len(calls) >= 3
    /\ LastCall.status = "noid"

\* C26: when resolve_or_create_path returns because the Gateway reported a
\* failure, on the fetch of the root, on a lookup or on a folder creation,
\* the error it returns is ApiError.
C26_GatewayFailureIsApiError ==
    (cmd = "roc" /\ pc = "roc_done" /\ calls # << >> /\ LastCall.status = "err") =>
        result = Err("ApiError")

(***************************************************************************)
(* Specification of the statistics of upload_directory: any local tree     *)
(* with files of any of a few sizes, transferred into the destination.     *)
(***************************************************************************)
\* the byte sizes a local file may have
FileBytes == {0, 5, 10}

InitTreeInfo ==
    /\ store = DestinationStore
    /\ tree \in Trees(MaxStatEntries, MaxStatDepth)
    /\ folder_order \in FolderOrders(tree)
    /\ root_files \in Orderings(RootFiles(tree))
    /\ parents = <<Len(DestinationStore)>>
    /\ calls = << >>
    /\ cmd = "upload_directory"
    /\ pc = "ud_start"
    /\ fi = 0
    /\ ui = 0
    /\ folder_ids = << >>
    /\ remote_path = << >>
    /\ local_is_dir = FALSE
    /\ local_name = << >>
    /\ recursive = FALSE
    /\ overwrite = FALSE
    /\ desired_name = None
    /\ upload_name = << >>
    /\ stdout = << >>
    /\ input = None
    /\ path = << >>
    /\ parts = << >>
    /\ idx = 0
    /\ current_id = RootId
    /\ current_file = None
    /\ result = NoResult
    /\ round = 1
    /\ first_result = NoResult
    /\ first_calls = 0
    /\ NoTransfer
    /\ print_only_id \in BOOLEAN
    /\ tree_info = None
    /\ reports = << >>
    /\ wildcard_part = << >>
    /\ wildcard_regex = << >>
    /\ candidate = << >>
    /\ is_match = None
    /\ sizes \in [tree.files -> FileBytes]
    /\ NoCli
    /\ NoOtherPath

SpecTreeInfo == InitTreeInfo /\ [][NextUpload]_vars

\* the sum of the byte sizes of the files in F
RECURSIVE TotalBytes(_, _)
TotalBytes(sz, F) ==
    IF F = {} THEN 0
    ELSE LET f == CHOOSE q \in F : TRUE IN sz[f] + TotalBytes(sz, F \ {f})

\* the line upload_directory prints for the statistics info
StatLine(line, info) ==
    [line |-> line,
     file_count |-> info.file_count,
     folder_count |-> info.folder_count,
     total_file_size |-> HumanBytes(info.total_file_size)]

Dash == "-"

TokPush == <<"p", "u", "s", "h">>

TokFiles == <<"f", "i", "l", "e", "s">>

TokF == <<"f">>

TokUpload == <<"u", "p", "l", "o", "a", "d">>

\* the names of the options of Command::Push and the fields they set
PushShort == ("m" :> "mime") @@ ("r" :> "recursive") @@ ("y" :> "overwrite")

PushLong ==
    (<<"m", "i", "m", "e">> :> "mime") @@ (<<"r", "e", "c", "u", "r", "s", "i", "v", "e">> :> "recursive")
        @@ (<<"o", "v", "e", "r", "w", "r", "i", "t", "e">> :> "overwrite")

\* the names of the options of FileCommand::Upload and the fields they set
UploadShort == ("m" :> "mime")

UploadLong ==
    (<<"m", "i", "m", "e">> :> "mime") @@ (<<"r", "e", "c", "u", "r", "s", "i", "v", "e">> :> "recursive")
        @@ (<<"c", "h", "u", "n", "k", "-", "s", "i", "z", "e">> :> "chunk_size")
        @@ (<<"p", "r", "i", "n", "t", "-", "c", "h", "u", "n", "k", "-", "e", "r", "r", "o", "r", "s">> :> "print_chunk_errors")
        @@ (<<"p", "r", "i", "n", "t", "-", "c", "h", "u", "n", "k", "-", "i", "n", "f", "o">> :> "print_chunk_info")
        @@ (<<"p", "r", "i", "n", "t", "-", "o", "n", "l", "y", "-", "i", "d">> :> "print_only_id")

\* Option<String>, Option<u64>: the options that take a value
ValueOptions == {"mime", "chunk_size"}

\* the positional arguments: file_path and remote_path
MaxPositionals == 2

\* remote_path: String in Push, Option<String> in Upload
RequiredPositionals(command) == IF command = "push" THEN 2 ELSE 1

\* a bool field that is not given on the command line
FlagDefault_Set == TRUE

FlagDefault == FALSE

IsLong(t) == Len(t) >= 3 /\ t[1] = Dash /\ t[2] = Dash

IsShort(t) == Len(t) >= 2 /\ t[1] = Dash /\ t[2] # Dash

ParseError(kind) == [tag |-> kind]

\* one flag of the command line: a flag given twice is an error
SetFlag(st, field) ==
    IF field \in ValueOptions THEN ParseError("InvalidValue")
    ELSE IF field \in st.flags THEN ParseError("ArgumentConflict")
    ELSE [st EXCEPT !.flags = st.flags \cup {field}]

\* the flags of one token of short options, -r or -ry
RECURSIVE SetShorts(_, _, _)
SetShorts(st, short, cs) ==
    IF cs = << >> \/ st.tag # "Ok" THEN st
    ELSE IF Head(cs) \notin DOMAIN short THEN ParseError("UnknownArgument")
    ELSE SetShorts(SetFlag(st, short[Head(cs)]), short, Tail(cs))

\* the tokens after the subcommand, from left to right
RECURSIVE ParseTokens(_, _, _, _)
ParseTokens(st, short, long, toks) ==
    IF toks = << >> \/ st.tag # "Ok" THEN st
    ELSE LET t == Head(toks)
         IN  IF IsLong(t)
             THEN IF SubSeq(t, 3, Len(t)) \in DOMAIN long
                  THEN ParseTokens(SetFlag(st, long[SubSeq(t, 3, Len(t))]),
                                   short, long, Tail(toks))
                  ELSE ParseError("UnknownArgument")
             ELSE IF IsShort(t)
             THEN ParseTokens(SetShorts(st, short, Tail(t)), short, long, Tail(toks))
             ELSE IF Len(st.positionals) >= MaxPositionals
             THEN ParseError("UnknownArgument")
             ELSE ParseTokens([st EXCEPT !.positionals = Append(st.positionals, t)],
                              short, long, Tail(toks))

\* the command the parsed tokens make, or the error of a missing argument
Finish(command, st) ==
    IF st.tag # "Ok" THEN st
    ELSE IF Len(st.positionals) < RequiredPositionals(command)
    THEN ParseError("MissingRequiredArgument")
    ELSE [tag |-> "Ok",
          command |-> command,
          file_path |-> st.positionals[1],
          remote_path |-> IF Len(st.positionals) >= 2
                          THEN Some(st.positionals[2]) ELSE None,
          recursive |-> IF "recursive" \in st.flags THEN TRUE ELSE FlagDefault,
          overwrite |-> IF "overwrite" \in st.flags THEN TRUE ELSE FlagDefault]

ParseStart == [tag |-> "Ok", flags |-> {}, positionals |-> << >>]

\* Cli::try_parse_from(["gdrive"] followed by a)
TryParseFrom(a) ==
    IF a # << >> /\ a[1] = TokPush
    THEN Finish("push", ParseTokens(ParseStart, PushShort, PushLong, Tail(a)))
    ELSE IF Len(a) >= 2 /\ a[1] \in {TokFiles, TokF} /\ a[2] = TokUpload
    THEN Finish("upload",
                ParseTokens(ParseStart, UploadShort, UploadLong, Tail(Tail(a))))
    ELSE ParseError("InvalidSubcommand")

CLI_Parse ==
    /\ pc = "cli_start"
    /\ cli' = Some(TryParseFrom(args))
    /\ pc' = "cli_done"
    /\ UNCHANGED <<store, calls, cmd, resolverVars, repeatVars, uploadVars, pushVars>>
    /\ UNCHANGED <<wildVars, transferVars, statVars, normVars, args>>

(***************************************************************************)
(* Specification of the command line: `push`, `files upload` or `f upload` *)
(* followed by any few tokens out of flags and paths.                      *)
(***************************************************************************)
TokShortR == <<"-", "r">>

TokShortY == <<"-", "y">>

TokShortRY == <<"-", "r", "y">>

TokLongRecursive == <<"-", "-", "r", "e", "c", "u", "r", "s", "i", "v", "e">>

TokDot == <<".">>

TokRemote == <<"/", "x">>

CliTokens == {TokShortR, TokShortY, TokShortRY, TokLongRecursive, TokDot, TokRemote}

CliCommands == {<<TokPush>>, <<TokFiles, TokUpload>>, <<TokF, TokUpload>>}

InitCli ==
    /\ store = << >>
    /\ calls = << >>
    /\ cmd = "cli"
    /\ pc = "cli_start"
    /\ path = << >>
    /\ parts = << >>
    /\ idx = 0
    /\ current_id = RootId
    /\ current_file = None
    /\ result = NoResult
    /\ round = 1
    /\ first_result = NoResult
    /\ first_calls = 0
    /\ tree = [folders |-> {<< >>}, files |-> {}]
    /\ folder_order = << >>
    /\ root_files = << >>
    /\ parents = << >>
    /\ fi = 0
    /\ ui = 0
    /\ folder_ids = << >>
    /\ remote_path = << >>
    /\ local_is_dir = FALSE
    /\ local_name = << >>
    /\ recursive = FALSE
    /\ overwrite = FALSE
    /\ desired_name = None
    /\ upload_name = << >>
    /\ stdout = << >>
    /\ input = None
    /\ wildcard_part = << >>
    /\ wildcard_regex = << >>
    /\ candidate = << >>
    /\ is_match = None
    /\ NoTransfer
    /\ NoStats
    /\ EmptyFiles
    /\ args \in {c \o t : c \in CliCommands, t \in StringsUpTo(CliTokens, MaxArgs)}
    /\ cli = None
    /\ NoOtherPath
NextCli == CLI_Parse

SpecCli == InitCli /\ [][NextCli]_vars

\* the tokens after the subcommand
ArgsAfterCommand ==
    IF args # << >> /\ args[1] = TokPush THEN Tail(args) ELSE Tail(Tail(args))

IsPositional(t) == ~IsLong(t) /\ ~IsShort(t)

\* the token asks for a recursive transfer: --recursive, or short flags with r
GivesRecursive(t) ==
    \/ t = TokLongRecursive
    \/ IsShort(t) /\ Contains(Tail(t), "r")

\* the tokens in toks that satisfy Test, as positions
Positions(toks, Test(_)) == {i \in 1..Len(toks) : Test(toks[i])}

\* C28: after `push` and after `files upload` alike, a command line of the
\* flag -r and a local and a remote path, in any order, parses, and the
\* command it gives has recursive set.
C28_ShortFlagSetsRecursive ==
    (/\ pc = "cli_done"
     /\ Len(ArgsAfterCommand) = 3
     /\ Cardinality(Positions(ArgsAfterCommand, LAMBDA t : t = TokShortR)) = 1
     /\ Cardinality(Positions(ArgsAfterCommand, IsPositional)) = 2) =>
        /\ cli[1].tag = "Ok"
        /\ cli[1].recursive

\* C29: after `push` and after `files upload` alike, a command line of a
\* local and a remote path and nothing else parses, with the two paths in
\* file_path and remote_path and recursive false; and no command line
\* without a recursive flag parses to a command with recursive set.
C29_RecursiveDefaultsToFalse ==
    pc = "cli_done" =>
        /\ (Len(ArgsAfterCommand) = 2 /\ \A i \in 1..2 : IsPositional(ArgsAfterCommand[i])) =>
              /\ cli[1].tag = "Ok"
              /\ cli[1].command = IF args[1] = TokPush THEN "push" ELSE "upload"
              /\ cli[1].file_path = ArgsAfterCommand[1]
              /\ cli[1].remote_path = Some(ArgsAfterCommand[2])
              /\ ~cli[1].recursive
        /\ (Positions(ArgsAfterCommand, GivesRecursive) = {} /\ cli[1].tag = "Ok") =>
              ~cli[1].recursive

\* `files upload . /x` has parsed
C29_Witness ==
    /\ pc = "cli_done"
    /\ args = <<TokFiles, TokUpload, TokDot, TokRemote>>
    /\ cli[1].tag = "Ok"
    /\ ~cli[1].recursive

(***************************************************************************)
(* Two spellings of one path: each resolver is called with the plain       *)
(* spelling of a path, and then, from the same remote state, with another  *)
(* string that has the same segments.                                      *)
(***************************************************************************)
NormPathChars == {"x", Slash, "*"}

\* where a call of the resolver cmd starts and where it has returned
StartPc(c) ==
    IF c = "resolve" THEN "rp_start" ELSE IF c = "roc" THEN "roc_start" ELSE "rwp_start"

DonePc(c) ==
    IF c = "resolve" THEN "rp_done" ELSE IF c = "roc" THEN "roc_done" ELSE "rwp_done"

\* the non-empty segments of p between its slashes, read character by
\* character
RECURSIVE Scan(_, _, _)
Scan(p, seg, acc) ==
    IF p = << >> THEN IF seg = << >> THEN acc ELSE Append(acc, seg)
    ELSE IF Head(p) = Slash
    THEN Scan(Tail(p), << >>, IF seg = << >> THEN acc ELSE Append(acc, seg))
    ELSE Scan(Tail(p), Append(seg, Head(p)), acc)

Segments(p) == Scan(p, << >>, << >>)

\* the spelling without a leading, a trailing or a repeated slash
IsPlain(p) ==
    /\ p # << >> => p[1] # Slash /\ p[Len(p)] # Slash
    /\ \A i \in 1..(Len(p) - 1) : ~(p[i] = Slash /\ p[i + 1] = Slash)

\* the caller of the normalisation property: once the call has returned, the
\* same resolver is called with the other spelling on the initial store
NORM_CallOther ==
    /\ round = 1
    /\ pc = DonePc(cmd)
    /\ round' = 2
    /\ first_result' = result
    /\ first_calls' = Len(calls)
    /\ first_log' = calls
    /\ store' = initial_store
    /\ calls' = << >>
    /\ path' = other_path
    /\ other_path' = path
    /\ parts' = << >>
    /\ idx' = 0
    /\ current_id' = RootId
    /\ current_file' = None
    /\ result' = NoResult
    /\ wildcard_part' = << >>
    /\ wildcard_regex' = << >>
    /\ pc' = StartPc(cmd)
    /\ UNCHANGED <<cmd, uploadVars, pushVars, candidate, is_match>>
    /\ UNCHANGED <<transferVars, statVars, cliVars, initial_store>>

InitNormal ==
    /\ store \in InitStores(MaxNormObjs, {FolderKind})
    /\ path \in {q \in StringsUpTo(NormPathChars, MaxNormChars) : IsPlain(q)}
    /\ calls = << >>
    /\ cmd \in {"resolve", "roc", "wildcard"}
    /\ pc = StartPc(cmd)
    /\ parts = << >>
    /\ idx = 0
    /\ current_id = RootId
    /\ current_file = None
    /\ result = NoResult
    /\ round = 1
    /\ first_result = NoResult
    /\ first_calls = 0
    /\ NoTransfer
    /\ NoStats
    /\ NoCli
    /\ other_path \in {q \in StringsUpTo(NormPathChars, MaxNormChars) :
                        q # path /\ Segments(q) = Segments(path)}
    /\ first_log = << >>
    /\ initial_store = store
    /\ wildcard_part = << >>
    /\ wildcard_regex = << >>
    /\ candidate = << >>
    /\ is_match = None
    /\ tree = [folders |-> {<< >>}, files |-> {}]
    /\ folder_order = << >>
    /\ root_files = << >>
    /\ parents = << >>
    /\ fi = 0
    /\ ui = 0
    /\ folder_ids = << >>
    /\ remote_path = << >>
    /\ local_is_dir = FALSE
    /\ local_name = << >>
    /\ recursive = FALSE
    /\ overwrite = FALSE
    /\ desired_name = None
    /\ upload_name = << >>
    /\ stdout = << >>
    /\ input = None
    /\ EmptyFiles

NextNormal ==
    \/ RP_Start
    \/ RP_AfterGet
    \/ RP_AfterFind
    \/ ROC_Start
    \/ ROC_AfterGet
    \/ ROC_AfterFind
    \/ ROC_AfterMkdir
    \/ RWP_Start
    \/ RWP_AfterFind
    \/ RWP_AfterList
    \/ RWP_AfterResolve
    \/ GatewayReturn
    \/ NORM_CallOther

SpecNormal == InitNormal /\ [][NextNormal]_vars

\* the Gateway has answered the calls of the second run as it answered the
\* calls of the first
SameAnswers ==
    \A i \in 1..Len(calls) : i <= Len(first_log) => calls[i].status = first_log[i].status

\* C30: two path strings with the same non-empty segments make resolve_path,
\* resolve_or_create_path and resolve_wildcard_path issue the same Gateway
\* calls in the same order and return the same result, when they start
\* from the same remote state and the Gateway answers alike.
C30_SpellingIsIrrelevant ==
    (round = 2 /\ SameAnswers) =>
        /\ Len(calls) <= Len(first_log)
        /\ \A i \in 1..Len(calls) : calls[i] = first_log[i]
        /\ pc = DonePc(cmd) => calls = first_log /\ result = first_result

\* resolve_or_create_path has created a folder for each spelling
C30_Witness ==
    /\ round = 2
    /\ cmd = "roc"
    /\ pc = "roc_done"
    /\ path # other_path
    /\ result.tag = "Ok"
    /\ calls = first_log
    /\ \E i \in 1..Len(calls) : calls[i].op = "mkdir"

(***************************************************************************)
(* The folder_ids map of upload_directory.                                 *)
(***************************************************************************)
\* the folder nodes whose creation has handed its identifier to the folder
\* loop: the call has returned one and the code after its await has run
CompletedFolders ==
    {folder_order[k] : k \in {i \in 1..NumFolders :
                                /\ i <= Len(calls)
                                /\ calls[i].status = "ok"
                                /\ (i < fi \/ pc # "ud_folder")}}

\* the creation calls issued for folder node f: its name under the parent
\* the loop computes for it
FolderCreations(f) ==
    {i \in 1..Len(calls) :
        /\ calls[i].kind = FolderKind
        /\ calls[i].name = Some(FileNameOf(f))
        /\ Some(calls[i].parent) = FolderParentId(f, folder_ids, parents)}

\* the Other error of the root folder, "No parent specified for root
\* directory": the only Other error that is not a failed lookup in the map
NoParentSpecified == parents = << >> /\ calls = << >>

\* C31: in a run of upload_directory over a well-formed tree the map holds
\* an entry for exactly the folder nodes whose creation has completed, no
\* folder node is created twice and every folder with an entry was created
\* once, and no lookup of a parent path in the map fails: the run never
\* returns the Other error "Failed to find parent".
C31_FolderIdMapConsistent ==
    cmd = "upload_directory" =>
        /\ DOMAIN folder_ids = CompletedFolders
        /\ \A f \in tree.folders :
            /\ Cardinality(FolderCreations(f)) <= 1
            /\ f \in DOMAIN folder_ids => Cardinality(FolderCreations(f)) = 1
        /\ result.tag = "Other" => NoParentSpecified

\* a run that created a folder two levels below the root folder and
\* uploaded a file has ended well
C31_Witness ==
    /\ cmd = "upload_directory"
    /\ pc = "ud_done"
    /\ result.tag = "Ok"
    /\ \E f \in DOMAIN folder_ids : Len(f) = 2
    /\ \E i \in 1..Len(calls) : calls[i].kind = FileKind /\ calls[i].status = "ok"

(***************************************************************************)
(* Specification of push -r of a local directory to any remote path of a   *)
(* few segments, without the overwrite flag: resolve_or_create_path, the   *)
(* overwrite guard, then upload_directory.  The store holds at most one    *)
(* object under the root, a folder or a file, trashed or not, named as a   *)
(* segment may be or as the root folder node of an earlier push is.        *)
(***************************************************************************)
\* the name upload_directory gives the object it creates for the root node
RootFolderName == FileNameOf(RelativePath(<< >>))

PushTreeStores ==
    {<< >>} \cup
    {<<o>> : o \in [name : {<<"x">>, RootFolderName}, parent : {RootId},
                    kind : {FolderKind, FileKind}, trashed : BOOLEAN]}

InitPushTree ==
    /\ store \in PushTreeStores
    /\ remote_path \in PushPaths(MaxTreeSegs)
    /\ local_is_dir = TRUE
    /\ local_name = <<"x">>
    /\ tree \in Trees(MaxTreeEntries, 1)
    /\ folder_order \in FolderOrders(tree)
    /\ root_files \in Orderings(RootFiles(tree))
    /\ recursive = TRUE
    /\ overwrite = FALSE
    /\ cmd = "push"
    /\ pc = "push_start"
    /\ calls = << >>
    /\ desired_name = None
    /\ upload_name = << >>
    /\ stdout = << >>
    /\ input = None
    /\ parents = << >>
    /\ fi = 0
    /\ ui = 0
    /\ folder_ids = << >>
    /\ path = << >>
    /\ parts = << >>
    /\ idx = 0
    /\ current_id = RootId
    /\ current_file = None
    /\ result = NoResult
    /\ round = 1
    /\ first_result = NoResult
    /\ first_calls = 0
    /\ Idle
    /\ wildcard_part = << >>
    /\ wildcard_regex = << >>
    /\ candidate = << >>
    /\ is_match = None
    /\ EmptyFiles

NextPushTree ==
    \/ PUSH_Start
    \/ ROC_Start
    \/ ROC_AfterGet
    \/ ROC_AfterFind
    \/ ROC_AfterMkdir
    \/ PUSH_AfterResolve
    \/ UWC_Start
    \/ UWC_AfterList
    \/ UWC_Confirm
    \/ UD_Start
    \/ UD_AfterFolder
    \/ UD_AfterFile
    \/ GatewayReturn

SpecPushTree == InitPushTree /\ [][NextPushTree]_vars

\* C32: in every execution of path resolution, the overwrite guard and both
\* phases of the transfer at most one Gateway call is in flight: every call
\* but the one issued last has returned, so a call is issued only after the
\* call before it has returned.
C32_OneCallInFlight ==
    \A i \in 1..Len(calls) : i < Len(calls) => calls[i].status # "pending"

\* the file upload of the second phase is in flight after a lookup, a folder
\* creation of the resolver, the guard's listing and a folder creation of
\* the first phase have returned
C32_Witness ==
    /\ pc = "ud_file"
    /\ Pending
    /\ \E i, j, k \in 1..Len(calls) :
        /\ calls[i].op = "mkdir"
        /\ i < j
        /\ calls[j].op = "find" /\ calls[j].name = None
        /\ j < k
        /\ calls[k].op = "create" /\ calls[k].kind = FolderKind

(***************************************************************************)
(* Name-based resolution and trashed objects: resolve_path and             *)
(* resolve_wildcard_path from their own initial states, and                *)
(* resolve_or_create_path and the overwrite guard inside push.             *)
(***************************************************************************)
InitTrashed == InitWildcard \/ InitPushTree

NextTrashed == NextWildcard \/ NextPushTree

SpecTrashed == InitTrashed /\ [][NextTrashed]_vars

IsTrashed(id) == id # RootId /\ store[id].trashed

\* the objects the operation has returned: one File, or the Vec<File> of
\* resolve_wildcard_path
ReturnedObjects ==
    IF result.tag # "Ok" THEN {}
    ELSE {result.file[k] : k \in 1..Len(result.file)}

\* the names the guard has reported as about to be overwritten
ReportedNames ==
    UNION {stdout[k].names : k \in {j \in 1..Len(stdout) : stdout[j].kind = "WillBeOverwritten"}}

\* the lookups of name under parent that came back empty
EmptyLookups(pid, name) ==
    {i \in 1..Len(calls) :
        /\ calls[i].op = "find"
        /\ calls[i].parent = pid
        /\ calls[i].name = Some(name)
        /\ calls[i].status = "ok"
        /\ calls[i].res = << >>}

\* C33: name-based resolution never uses a trashed object: no lookup or
\* listing of resolve_path, resolve_or_create_path, resolve_wildcard_path or
\* the overwrite guard matches one, none is walked through, listed or
\* created under, none is returned, none is reported as a collision, and
\* resolve_or_create_path creates a folder where the only namesake is
\* trashed.
C33_TrashedNeverUsed ==
    /\ \A i \in 1..Len(calls) :
        /\ ~IsTrashed(calls[i].parent)
        /\ calls[i].op = "find" =>
            \A k \in 1..Len(calls[i].res) : ~IsTrashed(calls[i].res[k])
    /\ \A id \in ReturnedObjects : ~IsTrashed(id)
    /\ \A n \in ReportedNames :
        \E id \in 1..Len(store) :
            store[id].name = n /\ store[id].parent = GuardParent(parents) /\ ~IsTrashed(id)
    /\ \A id \in 1..Len(store) :
        (/\ IsTrashed(id)
         /\ pc = "roc_find" /\ Returned /\ LastCall.status = "ok"
         /\ LastCall.parent = store[id].parent
         /\ LastCall.name = Some(store[id].name)
         /\ \A o \in 1..Len(store) :
               (o # id /\ store[o].parent = store[id].parent) => store[o].name # store[id].name)
            => LastCall.res = << >>
    /\ \A i \in 1..Len(calls) :
        (calls[i].op = "mkdir" /\ cmd = "push") =>
            EmptyLookups(calls[i].parent, calls[i].name[1]) # {}

\* resolve_or_create_path has created a folder beside its trashed namesake
C33_Witness ==
    /\ cmd = "push"
    /\ \E i \in 1..Len(calls) :
        /\ calls[i].op = "mkdir"
        /\ calls[i].status = "ok"
        /\ \E id \in 1..Len(store) :
            /\ IsTrashed(id)
            /\ store[id].parent = calls[i].parent
            /\ store[id].name = calls[i].name[1]

\* C34: resolve_or_create_path never issues a folder creation whose parent
\* is an object that is not a folder: below a segment that resolves to an
\* existing file nothing is created.
C34_NoFolderUnderNonFolder ==
    \A i \in 1..Len(calls) :
        calls[i].op = "mkdir" => KindOf(store, calls[i].parent) = FolderKind

\* C35: a push that the operator refuses at the confirmation prompt leaves
\* the remote store as it was: no folder and no file creation has been
\* issued at any point of the command, the resolution of the destination
\* that precedes the prompt included.
C35_RefusedPushWritesNothing ==
    (cmd = "push" /\ input # None /\ ~ConfirmOverwrite(input[1])) =>
        \A i \in 1..Len(calls) : ~IsWrite(calls[i])

\* the non-trashed children the destination parent had before the transfer
ExistingChildren ==
    LET before == StoreBefore({"create"}) IN
    {id \in 1..Len(before) :
        before[id].parent = GuardParent(parents) /\ ~before[id].trashed}

\* C36: for a recursive directory push, every existing child of the
\* destination parent that bears the name of an object the transfer creates
\* directly under that parent is in the list of potential overwrites the
\* guard has presented before the transfer.
C36_GuardListsEveryCollision ==
    (cmd = "push" /\ local_is_dir /\ recursive /\ ~overwrite /\ parents # << >>) =>
        \A i \in 1..Len(calls) :
            (calls[i].op = "create" /\ calls[i].parent = GuardParent(parents)) =>
                \A id \in ExistingChildren :
                    store[id].name = calls[i].name[1] => store[id].name \in ReportedNames

C38_DestinationIsFullPath ==
    (/\ cmd = "push"
     /\ local_is_dir
     /\ recursive
     /\ PushParts # << >>
     /\ remote_path[Len(remote_path)] # Slash
     /\ parents # << >>) =>
        /\ Follow(store, RootId, PushParts).ok
        /\ parents[1] = Follow(store, RootId, PushParts).id

\* C39: upload_directory started without a destination parent (parents
\* absent or empty) fails with the Other error at the root folder node: it
\* issues no folder or file creation and leaves the store as it was.
C39_NoParentIsAnError ==
    (cmd = "upload_directory" /\ parents = << >> /\ pc # "ud_start") =>
        /\ pc = "ud_done"
        /\ result = Err("Other")
        /\ fi = 1
        /\ folder_order[fi] = << >>
        /\ calls = << >>
        /\ store = DestinationStore

\* the run without a destination is over, its tree holding a folder and a
\* file
C39_Witness ==
    /\ cmd = "upload_directory"
    /\ parents = << >>
    /\ pc = "ud_done"
    /\ tree.files # {}
    /\ Cardinality(tree.folders) > 1

====
